---- MODULE Spec2Model ----
(***************************************************************************)
(* A model of the mlx-multimodal-toolkit dispatch layer: the three         *)
(* per-category facades (LLMDriver, VLMDriver, ALMDriver) and the          *)
(* UnifiedModelDriver registry (load_model, unload_model,                  *)
(* set_active_model, compare_models, batch_process).                       *)
(*                                                                         *)
(* The external inference library (mlx_lm, mlx_vlm, mlx_whisper) is the    *)
(* environment: each of its calls either returns or raises, chosen         *)
(* nondeterministically by the action that makes the call.                 *)
(***************************************************************************)
EXTENDS Integers, Sequences, FiniteSets, TLC

VARIABLES
    _models,        \* UnifiedModelDriver._models: a dict, as a sequence of [key, value]
    _active_model,  \* UnifiedModelDriver._active_model: a driver or NoDriver
    facade,         \* a facade object a caller constructed and holds directly
    loaded_ok,      \* history: load has returned normally on that facade object
    generator,      \* the generator object the caller got from facade.stream(...)
    DEFAULT_CONFIG, \* Config.DEFAULT_CONFIG: the dict each of its sections holds
    cfg,            \* cfg.config, for the Config instance cfg the caller holds
    environ,        \* os.environ, where it is set once for the process
    call            \* the call the caller made last: its arguments, the registry
                    \* before it, and what it raised and returned

\* what a caller working with one facade holds
facade_vars == <<facade, loaded_ok, generator>>

\* the configuration store: the class attribute and the caller's instance
config_vars == <<DEFAULT_CONFIG, cfg, environ>>

vars == <<_models, _active_model, facade_vars, config_vars, call>>

----------------------------------------------------------------------------
(* Bounds of the model *)

\* longest list of identities handed to compare_models
MaxModels == 2
\* longest list of input records handed to batch_process
MaxInputs == 2
\* longest list of prompts handed to batch_generate
MaxPrompts == 2
\* most recognized environment variables set when a Config is constructed
MaxEnvVars == 1

----------------------------------------------------------------------------
(* Python values *)

\* None, where a str was expected
None == "<None>"

\* truthiness of an optional str: `not x`
Falsy(x) == x \in {None, ""}

\* no exception
NoExc == [type |-> "", msg |-> ""]

Raise(type, msg) == [type |-> type, msg |-> msg]

\* what the external library raises when one of its calls fails
ExternalError == Raise("Exception", "external library failure")

\* a keyword-argument dict: a set of <<key, value>> pairs, one per key
KwHas(kwargs, k) == \E p \in kwargs : p[1] = k

\* dict.get(k, default)
KwGet(kwargs, k, default) ==
    IF KwHas(kwargs, k) THEN (CHOOSE p \in kwargs : p[1] = k)[2] ELSE default

----------------------------------------------------------------------------
(* models.py: the three enums.  Each member is [type, value]; one text and *)
(* one vision member stand for their enums, the audio enum is complete.    *)

LLMs == {[type |-> "LLMs", value |-> "Phi-3.5-mini-instruct-4bit"]}

VLMs == {[type |-> "VLMs", value |-> "SmolVLM-Instruct-bf16"]}

ALMs == {[type |-> "ALMs", value |-> "Kokoro-82M-bf16"],
         [type |-> "ALMs", value |-> "whisper-large-v3-mlx"]}

Identities == LLMs \cup VLMs \cup ALMs

\* values that are members of no enum: a plain str spelling a display name
\* (a str has no .value attribute)
NonIdentities == {[type |-> "str", value |-> "Phi-3.5-mini-instruct-4bit"]}

\* isinstance(x, E) for an enum E
IsInstance(x, E) == x \in E

\* whether x.value exists
HasValue(x) == x \in Identities

\* "whisper" in model_name.lower()
ContainsWhisper(model_name) == model_name \in {"whisper-large-v3-mlx"}

\* "kokoro" in model_name.lower()
ContainsKokoro(model_name) == model_name \in {"Kokoro-82M-bf16"}

----------------------------------------------------------------------------
(* base_driver.py *)

\* BaseModelDriver.__init__ through a subclass __init__.  config is the dict
\* handed over, {} for None (`config or {}`); id is the object's identity: it
\* differs from the id of every live driver of the same name.
NewDriver(cls, model_enum, config, id) ==
    [id |-> id, cls |-> cls, model_name |-> model_enum.value, config |-> config,
     _model |-> FALSE, _tokenizer |-> FALSE, _processor |-> FALSE,
     _config |-> FALSE]

\* the absent driver (Optional[BaseModelDriver] = None)
NoDriver ==
    [id |-> 0, cls |-> "NoneType", model_name |-> None, config |-> {},
     _model |-> FALSE, _tokenizer |-> FALSE, _processor |-> FALSE,
     _config |-> FALSE]

\* mutant of validate_input: every prompt is accepted
validate_input_accept(prompt) == NoExc

\* BaseModelDriver.validate_input: the exception it raises, or NoExc
validate_input(prompt) ==
    IF Falsy(prompt) THEN Raise("ValueError", "Prompt cannot be empty")
    ELSE NoExc

\* BaseModelDriver.get_info()["loaded"]
get_info_loaded(d) == d._model

----------------------------------------------------------------------------
(* The external library's answers *)

\* outcomes of the external loading calls of one facade load
ExtLoadOutcomes == {"ok", "load_raises", "load_config_raises"}

\* outcomes of one external generation / transcription call
ExtGenOutcomes == {"ok", "raises"}

\* files that exist on disk (Path(img).exists())
ExistingFiles == {"img.png", "a.wav"}

\* the text the external generation call returns, as the pieces of one str
Response(model_name, prompt, media) == <<"text", model_name, prompt>> \o media

\* what a facade generate gives its caller: the exception it raises (NoExc
\* when it returns), the str it returns as a sequence of pieces (<<None>> for
\* an implicit None), the external generation calls it made and the keyword
\* options it handed to that call
Outcome(exc, ret, ext_calls) ==
    [exc |-> exc, ret |-> ret, ext_calls |-> ext_calls, options |-> {}]

\* a generate that got as far as its one external call, made with options
ExtCall(exc, ret, options) ==
    [exc |-> exc, ret |-> ret, ext_calls |-> 1, options |-> options]

\* dict.update(other): the keys of other win
DictUpdate(base, other) == {p \in base : ~KwHas(other, p[1])} \cup other

\* d.pop(k, default) handed on as k=...: the dict with k defaulted
WithDefault(d, k, default) == IF KwHas(d, k) THEN d ELSE d \cup {<<k, default>>}

NotLoaded == Raise("RuntimeError", "Model not loaded. Call load() first.")

----------------------------------------------------------------------------
(* Generators.  stream is a generator function: calling it runs none of its *)
(* body and gives a generator object; each next() on that object runs the   *)
(* body up to its next yield.                                               *)

\* most fragments the external incremental-generation call produces
MaxFragments == 2

StopIteration == Raise("StopIteration", "")

\* no generator object
NoGenerator ==
    [state |-> "none", prompt |-> None, images |-> None, audio_file |-> None,
     kwargs |-> {}, ext_calls |-> 0, options |-> {}, produced |-> 0,
     delivered |-> <<>>]

\* the generator object a call of stream returns: its arguments are bound,
\* its body has not started
NewGenerator(prompt, images, audio_file, kwargs) ==
    [state |-> "created", prompt |-> prompt, images |-> images,
     audio_file |-> audio_file, kwargs |-> kwargs, ext_calls |-> 0,
     options |-> {}, produced |-> 0, delivered |-> <<>>]

\* the k-th fragment the external call produces
Fragment(k) == <<"token", k>>

\* what one next() gives: the generator afterwards, the exception raised
\* (StopIteration when the body returned) and the fragment yielded
Pulled(g, exc, value) == [gen |-> g, exc |-> exc, value |-> value]

\* next() on a generator whose body has returned or raised
Exhausted(g) == Pulled(g, StopIteration, <<>>)

\* the body raises e: the generator is finished
BodyRaises(g, e) == Pulled([g EXCEPT !.state = "closed"], e, <<>>)

\* mutant of ExternalNext: the external iterator is drained into a list when
\* the first fragment is asked for
ExternalNext_eager(g, ext, options) ==
    LET g1 == [g EXCEPT !.ext_calls = 1, !.options = options]
    IN  IF ext = "fragment"
        THEN Pulled([g1 EXCEPT !.state = "suspended",
                               !.produced = IF g.produced = 0 THEN MaxFragments ELSE @,
                               !.delivered = Append(@, Fragment(Len(g.delivered) + 1))],
                    NoExc, Fragment(Len(g.delivered) + 1))
        ELSE IF ext = "end" THEN Pulled([g1 EXCEPT !.state = "closed"], StopIteration, <<>>)
        ELSE BodyRaises(g1, ExternalError)

\* `for token in stream_generate(...): yield token`, from the point where
\* the body asks the external iterator for its next fragment up to the yield
ExternalNext(g, ext, options) ==
    LET g1 == [g EXCEPT !.ext_calls = 1, !.options = options]
    IN  IF ext = "fragment"
        THEN Pulled([g1 EXCEPT !.state = "suspended",
                               !.produced = @ + 1,
                               !.delivered = Append(@, Fragment(g.produced + 1))],
                    NoExc, Fragment(g.produced + 1))
        ELSE IF ext = "end" THEN Pulled([g1 EXCEPT !.state = "closed"], StopIteration, <<>>)
        ELSE BodyRaises(g1, ExternalError)

----------------------------------------------------------------------------
(* llm_driver.py *)

\* LLMDriver.load: the driver afterwards and the exception re-raised
LLMDriver_load(d, ext) ==
    IF ext = "ok"
    THEN [driver |-> [d EXCEPT !._model = TRUE, !._tokenizer = TRUE], exc |-> NoExc]
    ELSE [driver |-> d, exc |-> ExternalError]

\* the built-in defaults of LLMDriver.generate (lines 46-51)
LLMDriver_generate_defaults ==
    {<<"max_tokens", "500">>, <<"temperature", "0.8">>, <<"top_p", "0.95">>,
     <<"repetition_penalty", "1.0">>}

\* gen_kwargs of LLMDriver.generate (lines 46-53)
LLMDriver_gen_kwargs(d, kwargs) ==
    DictUpdate(DictUpdate(LLMDriver_generate_defaults, d.config), kwargs)

\* the keyword options of the mlx_lm.generate call (lines 56-62)
LLMDriver_generate_options(d, kwargs) ==
    WithDefault(LLMDriver_gen_kwargs(d, kwargs), "verbose", "False")

\* mutant of LLMDriver_generate: the prompt is validated before the loaded check
LLMDriver_generate_validate_first(d, prompt, kwargs, ext) ==
    IF validate_input(prompt) # NoExc THEN Outcome(validate_input(prompt), <<>>, 0)
    ELSE IF ~d._model \/ ~d._tokenizer THEN Outcome(NotLoaded, <<>>, 0)
    ELSE IF ext = "ok"
    THEN ExtCall(NoExc, Response(d.model_name, prompt, <<>>),
                 LLMDriver_generate_options(d, kwargs))
    ELSE ExtCall(ExternalError, <<>>, LLMDriver_generate_options(d, kwargs))

\* LLMDriver.generate(prompt, **kwargs)
LLMDriver_generate(d, prompt, kwargs, ext) ==
    IF ~d._model \/ ~d._tokenizer THEN Outcome(NotLoaded, <<>>, 0)
    ELSE IF validate_input(prompt) # NoExc THEN Outcome(validate_input(prompt), <<>>, 0)
    ELSE IF ext = "ok"
    THEN ExtCall(NoExc, Response(d.model_name, prompt, <<>>),
                 LLMDriver_generate_options(d, kwargs))
    ELSE ExtCall(ExternalError, <<>>, LLMDriver_generate_options(d, kwargs))

\* the built-in defaults of LLMDriver.stream (lines 83-87)
LLMDriver_stream_defaults ==
    {<<"max_tokens", "500">>, <<"temperature", "0.8">>, <<"top_p", "0.95">>}

\* the keyword options of the mlx_lm.stream_generate call (lines 83-96)
LLMDriver_stream_options(d, kwargs) ==
    DictUpdate(DictUpdate(LLMDriver_stream_defaults, d.config), kwargs)

\* one next() on the generator of LLMDriver.stream(prompt, **kwargs)
LLMDriver_stream(d, g, ext) ==
    IF g.state = "closed" THEN Exhausted(g)
    ELSE IF g.state = "suspended"
    THEN ExternalNext(g, ext, g.options)
    ELSE IF ~d._model \/ ~d._tokenizer THEN BodyRaises(g, NotLoaded)
    ELSE IF validate_input(g.prompt) # NoExc THEN BodyRaises(g, validate_input(g.prompt))
    ELSE ExternalNext(g, ext, LLMDriver_stream_options(d, g.kwargs))

----------------------------------------------------------------------------
(* vlm_driver.py *)

\* VLMDriver.load: load_config first, then load
VLMDriver_load(d, ext) ==
    IF ext = "load_config_raises" THEN [driver |-> d, exc |-> ExternalError]
    ELSE IF ext = "load_raises"
    THEN [driver |-> [d EXCEPT !._config = TRUE], exc |-> ExternalError]
    ELSE [driver |-> [d EXCEPT !._config = TRUE, !._model = TRUE, !._processor = TRUE],
          exc |-> NoExc]

\* images is None, or one path given as a str (lines 47-50)
ImageList(images) == IF images = None THEN <<>> ELSE <<images>>

\* the paths that exist (lines 53-58)
ValidatedImages(images) ==
    SelectSeq(ImageList(images), LAMBDA img : img \in ExistingFiles)

\* the built-in defaults of VLMDriver.generate (lines 73-77)
VLMDriver_generate_defaults ==
    {<<"max_tokens", "500">>, <<"temperature", "0.8">>, <<"top_p", "0.95">>}

\* the keyword options of the mlx_vlm generate call (lines 73-89)
VLMDriver_generate_options(d, kwargs) ==
    WithDefault(DictUpdate(DictUpdate(VLMDriver_generate_defaults, d.config), kwargs),
                "verbose", "False")

\* VLMDriver.generate(prompt, images, **kwargs)
VLMDriver_generate(d, prompt, images, kwargs, ext) ==
    IF ~d._model \/ ~d._processor THEN Outcome(NotLoaded, <<>>, 0)
    ELSE IF validate_input(prompt) # NoExc THEN Outcome(validate_input(prompt), <<>>, 0)
    ELSE IF ext = "ok"
    THEN ExtCall(NoExc, Response(d.model_name, prompt, ValidatedImages(images)),
                 VLMDriver_generate_options(d, kwargs))
    ELSE ExtCall(ExternalError, <<>>, VLMDriver_generate_options(d, kwargs))

\* the keyword options of the mlx_vlm stream_generate call (lines 121-136)
VLMDriver_stream_options(d, kwargs) ==
    DictUpdate(DictUpdate(VLMDriver_generate_defaults, d.config), kwargs)

\* one next() on the generator of VLMDriver.stream(prompt, images, **kwargs)
VLMDriver_stream(d, g, ext) ==
    IF g.state = "closed" THEN Exhausted(g)
    ELSE IF g.state = "suspended"
    THEN ExternalNext(g, ext, g.options)
    ELSE IF ~d._model \/ ~d._processor THEN BodyRaises(g, NotLoaded)
    ELSE IF validate_input(g.prompt) # NoExc THEN BodyRaises(g, validate_input(g.prompt))
    ELSE ExternalNext(g, ext, VLMDriver_stream_options(d, g.kwargs))

----------------------------------------------------------------------------
(* alm_driver.py *)

\* ALMDriver.load
ALMDriver_load(d, ext) ==
    IF ContainsWhisper(d.model_name)
    THEN IF ext = "ok"
         THEN [driver |-> [d EXCEPT !._model = TRUE], exc |-> NoExc]
         ELSE [driver |-> d, exc |-> ExternalError]
    ELSE IF ContainsKokoro(d.model_name)
    THEN [driver |-> d,
          exc |-> Raise("NotImplementedError", "Kokoro TTS model support coming soon")]
    ELSE [driver |-> d, exc |-> Raise("ValueError", "Unknown ALM model type")]

\* the options dict of ALMDriver._transcribe_audio (lines 62-69)
ALMDriver_transcribe_options(d, audio_file, kwargs) ==
    {<<"path_or_hf_repo", d.model_name>>,
     <<"audio", audio_file>>,
     <<"verbose", KwGet(kwargs, "verbose", "True")>>,
     <<"language", KwGet(kwargs, "language", None)>>,
     <<"temperature", KwGet(kwargs, "temperature", "0")>>,
     <<"word_timestamps", KwGet(kwargs, "word_timestamps", "False")>>}

\* ALMDriver._transcribe_audio
ALMDriver_transcribe_audio(d, audio_file, kwargs, ext) ==
    IF ext = "ok"
    THEN ExtCall(NoExc, Response(d.model_name, None, <<audio_file>>),
                 ALMDriver_transcribe_options(d, audio_file, kwargs))
    ELSE ExtCall(ExternalError, <<>>, ALMDriver_transcribe_options(d, audio_file, kwargs))

\* ALMDriver._generate_audio
ALMDriver_generate_audio(d, text, kwargs) ==
    Outcome(Raise("NotImplementedError", "TTS generation coming soon"), <<>>, 0)

\* ALMDriver.generate(audio_file, prompt, **kwargs)
ALMDriver_generate(d, audio_file, prompt, kwargs, ext) ==
    IF ~d._model THEN Outcome(NotLoaded, <<>>, 0)
    ELSE IF ContainsWhisper(d.model_name)
    THEN IF Falsy(audio_file)
         THEN Outcome(Raise("ValueError", "Audio file path required for transcription"),
                      <<>>, 0)
         ELSE ALMDriver_transcribe_audio(d, audio_file, kwargs, ext)
    ELSE IF ContainsKokoro(d.model_name)
    THEN IF Falsy(prompt)
         THEN Outcome(Raise("ValueError", "Text prompt required for TTS"), <<>>, 0)
         ELSE ALMDriver_generate_audio(d, prompt, kwargs)
    ELSE Outcome(NoExc, <<None>>, 0)

\* one next() on the generator of ALMDriver.stream(audio_file, prompt,
\* **kwargs): whisper yields the one result of generate(audio_file=audio_file,
\* **kwargs), every other model raises
ALMDriver_stream(d, g, ext) ==
    IF g.state = "closed" THEN Exhausted(g)
    ELSE IF g.state = "suspended"
    THEN Pulled([g EXCEPT !.state = "closed"], StopIteration, <<>>)
    ELSE IF ContainsWhisper(d.model_name)
    THEN LET out == ALMDriver_generate(d, g.audio_file, None, g.kwargs,
                                       IF ext = "fragment" THEN "ok" ELSE "raises")
         IN  IF out.exc # NoExc
             THEN BodyRaises([g EXCEPT !.ext_calls = out.ext_calls,
                                       !.options = out.options], out.exc)
             ELSE Pulled([g EXCEPT !.state = "suspended",
                                   !.ext_calls = out.ext_calls,
                                   !.options = out.options,
                                   !.produced = 1,
                                   !.delivered = Append(@, out.ret)],
                         NoExc, out.ret)
    ELSE BodyRaises(g, Raise("NotImplementedError",
                             "Streaming not supported for this model"))

----------------------------------------------------------------------------
(* Dispatch on the facade's class *)

\* next() on the generator driver.stream(...) gave, on whichever facade d is
Driver_stream(d, g, ext) ==
    IF d.cls = "LLMDriver" THEN LLMDriver_stream(d, g, ext)
    ELSE IF d.cls = "VLMDriver" THEN VLMDriver_stream(d, g, ext)
    ELSE ALMDriver_stream(d, g, ext)

\* mutant of batch_generate: a failing prompt is skipped
RECURSIVE batch_generate_skip(_, _, _, _, _)
batch_generate_skip(d, prompts, kwargs, ext, acc) ==
    IF Len(acc.calls) = Len(prompts) THEN acc
    ELSE LET i == Len(acc.calls) + 1
             out == IF d.cls = "ALMDriver"
                    THEN ALMDriver_generate(d, prompts[i], None, kwargs, ext[i])
                    ELSE IF d.cls = "VLMDriver"
                    THEN VLMDriver_generate(d, prompts[i], None, kwargs, ext[i])
                    ELSE LLMDriver_generate(d, prompts[i], kwargs, ext[i])
             acc1 == [acc EXCEPT !.calls = Append(@, i)]
         IN  IF out.exc # NoExc
             THEN batch_generate_skip(d, prompts, kwargs, ext, acc1)
             ELSE batch_generate_skip(d, prompts, kwargs, ext,
                                      [acc1 EXCEPT !.ret = Append(@, out.ret)])

\* BaseModelDriver.batch_generate: self.generate(prompt, **kwargs) for each
\* prompt in turn, the prompt bound to generate's first parameter (audio_file
\* for the audio facade).  acc holds the list built so far, the positions
\* generate was called for and the exception that ended the comprehension.
RECURSIVE batch_generate(_, _, _, _, _)
batch_generate(d, prompts, kwargs, ext, acc) ==
    IF Len(acc.calls) = Len(prompts) THEN acc
    ELSE LET i == Len(acc.calls) + 1
             out == IF d.cls = "ALMDriver"
                    THEN ALMDriver_generate(d, prompts[i], None, kwargs, ext[i])
                    ELSE IF d.cls = "VLMDriver"
                    THEN VLMDriver_generate(d, prompts[i], None, kwargs, ext[i])
                    ELSE LLMDriver_generate(d, prompts[i], kwargs, ext[i])
             acc1 == [acc EXCEPT !.calls = Append(@, i)]
         IN  IF out.exc # NoExc
             THEN [acc1 EXCEPT !.exc = out.exc, !.ret = <<>>]
             ELSE batch_generate(d, prompts, kwargs, ext,
                                 [acc1 EXCEPT !.ret = Append(@, out.ret)])

\* driver.generate(...) on whichever facade d is, each with its own signature
Driver_generate(d, prompt, images, audio_file, kwargs, ext) ==
    IF d.cls = "LLMDriver" THEN LLMDriver_generate(d, prompt, kwargs, ext)
    ELSE IF d.cls = "VLMDriver" THEN VLMDriver_generate(d, prompt, images, kwargs, ext)
    ELSE ALMDriver_generate(d, audio_file, prompt, kwargs, ext)

\* driver.load(**kwargs) on whichever facade d is
Driver_load(d, ext) ==
    IF d.cls = "LLMDriver" THEN LLMDriver_load(d, ext)
    ELSE IF d.cls = "VLMDriver" THEN VLMDriver_load(d, ext)
    ELSE ALMDriver_load(d, ext)

----------------------------------------------------------------------------
(* unified_driver.py: the registry.  A dict is a sequence of [key, driver] *)
(* in insertion order.                                                     *)

\* list(d.keys())
Keys(d) == [i \in 1..Len(d) |-> d[i].key]

\* key in d
HasKey(d, k) == \E i \in 1..Len(d) : d[i].key = k

\* d[k] for a key that is present
DictGet(d, k) == d[CHOOSE i \in 1..Len(d) : d[i].key = k].value

\* mutant of DictSet: the entry is appended even when the key is present
DictSet_append(d, k, v) == Append(d, [key |-> k, value |-> v])

\* d[k] = v: a present key keeps its place, a new key goes last
DictSet(d, k, v) ==
    IF HasKey(d, k)
    THEN [i \in 1..Len(d) |-> IF d[i].key = k THEN [key |-> k, value |-> v] ELSE d[i]]
    ELSE Append(d, [key |-> k, value |-> v])

\* mutant of DictDel: nothing is removed
DictDel_keep(d, k) == d

\* del d[k]
DictDel(d, k) == SelectSeq(d, LAMBDA e : e.key # k)

\* the identity of a newly constructed driver: the least id no live driver
\* of that name has (two live objects never share an identity)
FreshId(models, active, name) ==
    LET live == {models[i].value : i \in 1..Len(models)} \cup {active, facade}
        used == {d.id : d \in {x \in live : x.model_name = name}}
    IN  CHOOSE i \in 1..(Cardinality(used) + 1) :
            /\ i \notin used
            /\ \A j \in 1..(i - 1) : j \in used

\* mutant of DriverClass: the final else builds a text facade instead of raising
DriverClass_default(model_enum) ==
    IF IsInstance(model_enum, VLMs) THEN "VLMDriver"
    ELSE IF IsInstance(model_enum, ALMs) THEN "ALMDriver"
    ELSE "LLMDriver"

\* the facade class load_model instantiates for an identity (lines 56-63)
DriverClass(model_enum) ==
    IF IsInstance(model_enum, LLMs) THEN "LLMDriver"
    ELSE IF IsInstance(model_enum, VLMs) THEN "VLMDriver"
    ELSE IF IsInstance(model_enum, ALMs) THEN "ALMDriver"
    ELSE "ValueError"

\* the registry after a successful facade load (lines 71-73)
StoreLoaded(models, active, driver) ==
    [_models |-> DictSet(models, driver.model_name, driver),
     _active_model |-> driver]

\* mutant of load_model: the driver is stored and made active before it is
\* loaded
load_model_store_first(models, active, model_enum, ext) ==
    IF DriverClass(model_enum) = "ValueError"
    THEN [_models |-> models, _active_model |-> active,
          exc |-> Raise("ValueError", "Unknown model type"), ret |-> NoDriver]
    ELSE LET driver == NewDriver(DriverClass(model_enum), model_enum, {},
                                 FreshId(models, active, model_enum.value))
             loaded == Driver_load(driver, ext)
         IN  [_models |-> StoreLoaded(models, active, loaded.driver)._models,
              _active_model |-> StoreLoaded(models, active, loaded.driver)._active_model,
              exc |-> loaded.exc,
              ret |-> IF loaded.exc # NoExc THEN NoDriver ELSE loaded.driver]

\* UnifiedModelDriver.load_model: the registry afterwards, the exception
\* raised and the driver returned
load_model(models, active, model_enum, ext) ==
    IF DriverClass(model_enum) = "ValueError"
    THEN [_models |-> models, _active_model |-> active,
          exc |-> Raise("ValueError", "Unknown model type"), ret |-> NoDriver]
    ELSE LET driver == NewDriver(DriverClass(model_enum), model_enum, {},
                                 FreshId(models, active, model_enum.value))
             loaded == Driver_load(driver, ext)
         IN  IF loaded.exc # NoExc
             THEN [_models |-> models, _active_model |-> active,
                   exc |-> loaded.exc, ret |-> NoDriver]
             ELSE [_models |-> StoreLoaded(models, active, loaded.driver)._models,
                   _active_model |-> StoreLoaded(models, active, loaded.driver)._active_model,
                   exc |-> NoExc, ret |-> loaded.driver]

\* UnifiedModelDriver.get_model
get_model(models, model_name) ==
    IF HasKey(models, model_name) THEN DictGet(models, model_name) ELSE NoDriver

\* UnifiedModelDriver.list_loaded_models
list_loaded_models(models) == Keys(models)

\* mutant of ActiveAfterUnload: the active reference is never cleared
ActiveAfterUnload_keep(active, model_name) == active

\* mutant of unload_model: the active reference is cleared whatever it is
unload_model_clear(models, active, model_name) ==
    IF HasKey(models, model_name)
    THEN [_models |-> DictDel(models, model_name), _active_model |-> NoDriver,
          ret |-> TRUE]
    ELSE [_models |-> models, _active_model |-> active, ret |-> FALSE]

\* the active reference after unload_model removed model_name (lines 94-95)
ActiveAfterUnload(active, model_name) ==
    IF active # NoDriver /\ active.model_name = model_name THEN NoDriver ELSE active

\* UnifiedModelDriver.unload_model
unload_model(models, active, model_name) ==
    IF HasKey(models, model_name)
    THEN [_models |-> DictDel(models, model_name),
          _active_model |-> ActiveAfterUnload(active, model_name),
          ret |-> TRUE]
    ELSE [_models |-> models, _active_model |-> active, ret |-> FALSE]

\* UnifiedModelDriver.set_active_model
set_active_model(models, active, model_name) ==
    IF HasKey(models, model_name)
    THEN [_models |-> models, _active_model |-> DictGet(models, model_name), ret |-> TRUE]
    ELSE [_models |-> models, _active_model |-> active, ret |-> FALSE]

\* f(..., k=v, **kwargs) with k also a key of kwargs
DuplicateKeyword(k) ==
    Raise("TypeError", "got multiple values for keyword argument")

\* the category-specific generate call of compare_models (lines 140-149);
\* batch_process makes the same call (lines 188-201)
Dispatch(driver, model_name, prompt, images, audio_file, kwargs, ext) ==
    IF driver.cls = "VLMDriver"
    THEN IF KwHas(kwargs, "images")
         THEN Outcome(DuplicateKeyword("images"), <<>>, 0)
         ELSE VLMDriver_generate(driver, prompt, images, kwargs, ext)
    ELSE IF driver.cls = "ALMDriver"
    THEN IF KwHas(kwargs, "audio_file")
         THEN Outcome(DuplicateKeyword("audio_file"), <<>>, 0)
         ELSE ALMDriver_generate(driver, audio_file,
                                 IF ContainsKokoro(model_name) THEN prompt ELSE None,
                                 kwargs, ext)
    ELSE LLMDriver_generate(driver, prompt, kwargs, ext)

\* f"Error: {str(e)}"
ErrorString(e) == <<"Error: ", e.msg>>

\* whether a recorded str is one of the error strings
IsErrorString(s) == Len(s) > 0 /\ s[1] = "Error: "

----------------------------------------------------------------------------
(* compare_models *)

\* the locals of compare_models before its loop: model_name is unbound
CompareStart(models, active) ==
    [_models |-> models, _active_model |-> active, results |-> <<>>,
     model_name |-> None, exc |-> NoExc, items |-> <<>>]

\* what one iteration did: the element, the exception its try block raised,
\* whether it called load_model, the external generation calls it made
ItemTrace(model_enum, exc, loaded, ext_calls) ==
    [model_enum |-> model_enum, exc |-> exc, loaded |-> loaded, ext_calls |-> ext_calls]

\* mutant of CompareHandler: the exception is raised again
CompareHandler_raise(st, e, trace) ==
    [st EXCEPT !.exc = e, !.items = Append(@, trace)]

\* the except clause (lines 153-155): it reads model_name, which is unbound
\* when line 133 failed in the first iteration
CompareHandler(st, e, trace) ==
    IF st.model_name = None
    THEN [st EXCEPT !.exc = Raise("UnboundLocalError",
                                  "cannot access local variable 'model_name'"),
                    !.items = Append(@, trace)]
    ELSE [st EXCEPT !.results = DictSet(@, st.model_name, ErrorString(e)),
                    !.items = Append(@, trace)]

\* mutant of CompareStep: the model is loaded whether it is cached or not
CompareStep_reload(st, model_enum, prompt, kwargs, extLoad, extGen) ==
    IF ~HasValue(model_enum)
    THEN CompareHandler(st, Raise("AttributeError", "object has no attribute 'value'"),
                        ItemTrace(model_enum,
                                  Raise("AttributeError", "object has no attribute 'value'"),
                                  FALSE, 0))
    ELSE
    LET model_name == model_enum.value
        ld == load_model(st._models, st._active_model, model_enum, extLoad)
        st1 == [st EXCEPT !.model_name = model_name,
                          !._models = ld._models,
                          !._active_model = ld._active_model]
    IN  IF ld.exc # NoExc
        THEN CompareHandler(st1, ld.exc, ItemTrace(model_enum, ld.exc, TRUE, 0))
        ELSE LET driver == DictGet(st1._models, model_name)
                 out == Dispatch(driver, model_name, prompt,
                                 KwGet(kwargs, "images", None),
                                 KwGet(kwargs, "audio_file", None),
                                 kwargs, extGen)
                 trace == ItemTrace(model_enum, out.exc, TRUE, out.ext_calls)
             IN  IF out.exc # NoExc
                 THEN CompareHandler(st1, out.exc, trace)
                 ELSE [st1 EXCEPT !.results = DictSet(@, model_name, out.ret),
                                  !.items = Append(@, trace)]

\* one iteration of the loop (lines 130-155)
CompareStep(st, model_enum, prompt, kwargs, extLoad, extGen) ==
    IF ~HasValue(model_enum)
    THEN CompareHandler(st, Raise("AttributeError", "object has no attribute 'value'"),
                        ItemTrace(model_enum,
                                  Raise("AttributeError", "object has no attribute 'value'"),
                                  FALSE, 0))
    ELSE
    LET model_name == model_enum.value
        cached == HasKey(st._models, model_name)
        ld == IF cached
              THEN [_models |-> st._models, _active_model |-> st._active_model,
                    exc |-> NoExc, ret |-> NoDriver]
              ELSE load_model(st._models, st._active_model, model_enum, extLoad)
        st1 == [st EXCEPT !.model_name = model_name,
                          !._models = ld._models,
                          !._active_model = ld._active_model]
    IN  IF ld.exc # NoExc
        THEN CompareHandler(st1, ld.exc, ItemTrace(model_enum, ld.exc, TRUE, 0))
        ELSE LET driver == DictGet(st1._models, model_name)
                 out == Dispatch(driver, model_name, prompt,
                                 KwGet(kwargs, "images", None),
                                 KwGet(kwargs, "audio_file", None),
                                 kwargs, extGen)
                 trace == ItemTrace(model_enum, out.exc, ~cached, out.ext_calls)
             IN  IF out.exc # NoExc
                 THEN CompareHandler(st1, out.exc, trace)
                 ELSE [st1 EXCEPT !.results = DictSet(@, model_name, out.ret),
                                  !.items = Append(@, trace)]

\* the loop from element i on; an exception that leaves the handler ends it
RECURSIVE CompareLoop(_, _, _, _, _, _, _)
CompareLoop(st, i, models, prompt, kwargs, extLoad, extGen) ==
    IF i > Len(models) \/ st.exc # NoExc THEN st
    ELSE CompareLoop(CompareStep(st, models[i], prompt, kwargs, extLoad[i], extGen[i]),
                     i + 1, models, prompt, kwargs, extLoad, extGen)

\* UnifiedModelDriver.compare_models
compare_models(models, prompt, kwargs, extLoad, extGen) ==
    CompareLoop(CompareStart(_models, _active_model), 1, models, prompt, kwargs,
                extLoad, extGen)

----------------------------------------------------------------------------
(* batch_process *)

\* an input record: a dict, as a set of <<key, value>> pairs, or a value
\* that is no mapping (it has no .get)
Record(isdict, items) == [isdict |-> isdict, items |-> items]

\* one iteration of the loop (lines 184-207): the str appended to results
\* and what the iteration did
BatchItem(driver, model_name, input_data, kwargs, ext) ==
    IF ~input_data.isdict
    THEN [result |-> ErrorString(Raise("AttributeError", "object has no attribute 'get'")),
          exc |-> Raise("AttributeError", "object has no attribute 'get'"),
          ext_calls |-> 0]
    ELSE LET prompt == KwGet(input_data.items, "prompt", "")
             out == Dispatch(driver, model_name, prompt,
                             KwGet(input_data.items, "images", None),
                             KwGet(input_data.items, "audio_file", None),
                             kwargs, ext)
         IN  [result |-> IF out.exc # NoExc THEN ErrorString(out.exc) ELSE out.ret,
              exc |-> out.exc, ext_calls |-> out.ext_calls]

\* mutant of ResultsAppend: the new result goes to the front
ResultsAppend_front(results, x) == <<x>> \o results

\* results.append(x) (lines 203 and 207)
ResultsAppend(results, x) == Append(results, x)

\* mutant of BatchLoop: the loop ends at the first record that fails
RECURSIVE BatchLoop_abort(_, _, _, _, _, _, _)
BatchLoop_abort(acc, i, driver, model_name, inputs, kwargs, extGen) ==
    IF i > Len(inputs) THEN acc
    ELSE LET it == BatchItem(driver, model_name, inputs[i], kwargs, extGen[i])
         IN  IF it.exc # NoExc THEN acc
             ELSE BatchLoop_abort([results |-> ResultsAppend(acc.results, it.result),
                                   items |-> Append(acc.items,
                                                    [exc |-> it.exc, ext_calls |-> it.ext_calls])],
                                  i + 1, driver, model_name, inputs, kwargs, extGen)

\* the loop from record i on
RECURSIVE BatchLoop(_, _, _, _, _, _, _)
BatchLoop(acc, i, driver, model_name, inputs, kwargs, extGen) ==
    IF i > Len(inputs) THEN acc
    ELSE LET it == BatchItem(driver, model_name, inputs[i], kwargs, extGen[i])
         IN  BatchLoop([results |-> ResultsAppend(acc.results, it.result),
                        items |-> Append(acc.items, [exc |-> it.exc, ext_calls |-> it.ext_calls])],
                       i + 1, driver, model_name, inputs, kwargs, extGen)

\* mutant of batch_process: a load that fails is treated like a record that
\* fails, every record getting the error string
batch_process_isolate(inputs, model_enum, kwargs, extLoad, extGen) ==
    IF ~HasValue(model_enum)
    THEN [_models |-> _models, _active_model |-> _active_model,
          exc |-> Raise("AttributeError", "object has no attribute 'value'"),
          results |-> <<>>, items |-> <<>>, driver |-> NoDriver]
    ELSE
    LET model_name == model_enum.value
        ld == IF HasKey(_models, model_name)
              THEN [_models |-> _models, _active_model |-> _active_model,
                    exc |-> NoExc, ret |-> NoDriver]
              ELSE load_model(_models, _active_model, model_enum, extLoad)
    IN  IF ld.exc # NoExc
        THEN [_models |-> ld._models, _active_model |-> ld._active_model,
              exc |-> NoExc,
              results |-> [i \in 1..Len(inputs) |-> ErrorString(ld.exc)],
              items |-> <<>>, driver |-> NoDriver]
        ELSE LET driver == DictGet(ld._models, model_name)
                 done == BatchLoop([results |-> <<>>, items |-> <<>>], 1, driver,
                                   model_name, inputs, kwargs, extGen)
             IN  [_models |-> ld._models, _active_model |-> ld._active_model,
                  exc |-> NoExc, results |-> done.results, items |-> done.items,
                  driver |-> driver]

\* UnifiedModelDriver.batch_process: the registry afterwards, the exception
\* that left the call, the list returned and what each iteration did
batch_process(inputs, model_enum, kwargs, extLoad, extGen) ==
    IF ~HasValue(model_enum)
    THEN [_models |-> _models, _active_model |-> _active_model,
          exc |-> Raise("AttributeError", "object has no attribute 'value'"),
          results |-> <<>>, items |-> <<>>, driver |-> NoDriver]
    ELSE
    LET model_name == model_enum.value
        ld == IF HasKey(_models, model_name)
              THEN [_models |-> _models, _active_model |-> _active_model,
                    exc |-> NoExc, ret |-> NoDriver]
              ELSE load_model(_models, _active_model, model_enum, extLoad)
    IN  IF ld.exc # NoExc
        THEN [_models |-> ld._models, _active_model |-> ld._active_model,
              exc |-> ld.exc, results |-> <<>>, items |-> <<>>, driver |-> NoDriver]
        ELSE LET driver == DictGet(ld._models, model_name)
                 done == BatchLoop([results |-> <<>>, items |-> <<>>], 1, driver,
                                   model_name, inputs, kwargs, extGen)
             IN  [_models |-> ld._models, _active_model |-> ld._active_model,
                  exc |-> NoExc, results |-> done.results, items |-> done.items,
                  driver |-> driver]

----------------------------------------------------------------------------
(* config.py.  A value is tagged with its Python type: an int i, a float    *)
(* i / 10^e with no trailing zero in i when e > 0, a str as the sequence s  *)
(* of its pieces, a bool (i is 0 or 1) or None.                             *)

IntV(n) == [t |-> "int", i |-> n, e |-> 0, s |-> <<>>]

FloatV(m, e) == [t |-> "float", i |-> m, e |-> e, s |-> <<>>]

StrV(chars) == [t |-> "str", i |-> 0, e |-> 0, s |-> chars]

BoolV(b) == [t |-> "bool", i |-> IF b THEN 1 ELSE 0, e |-> 0, s |-> <<>>]

NoneV == [t |-> "None", i |-> 0, e |-> 0, s |-> <<>>]

\* what a call gives: the exception it raises, or the value it returns
Result(exc, value) == [exc |-> exc, value |-> value]

\* the decimal digits
DigitValue ==
    [c \in {"0", "1", "2", "3", "4", "5", "6", "7", "8", "9"} |->
        CASE c = "0" -> 0 [] c = "1" -> 1 [] c = "2" -> 2 [] c = "3" -> 3
          [] c = "4" -> 4 [] c = "5" -> 5 [] c = "6" -> 6 [] c = "7" -> 7
          [] c = "8" -> 8 [] c = "9" -> 9]

\* a non-empty run of decimal digits
IsDigits(chars) ==
    Len(chars) > 0 /\ \A i \in 1..Len(chars) : chars[i] \in DOMAIN DigitValue

\* the number a run of digits spells
RECURSIVE DigitsToNat(_)
DigitsToNat(chars) ==
    IF chars = <<>> THEN 0
    ELSE 10 * DigitsToNat(SubSeq(chars, 1, Len(chars) - 1)) + DigitValue[chars[Len(chars)]]

\* int(value) for a str of characters: digits only, anything else is a
\* ValueError
ParseInt(chars) ==
    IF IsDigits(chars) THEN Result(NoExc, IntV(DigitsToNat(chars)))
    ELSE Result(Raise("ValueError", "invalid literal for int() with base 10"), NoneV)

\* i / 10^e without trailing zeros in the fraction
RECURSIVE NormalFloat(_, _)
NormalFloat(m, e) ==
    IF e > 0 /\ m % 10 = 0 THEN NormalFloat(m \div 10, e - 1) ELSE FloatV(m, e)

\* float(value) for a str of characters: digits, or digits "." digits
ParseFloat(chars) ==
    LET dots == {i \in 1..Len(chars) : chars[i] = "."}
    IN  IF IsDigits(chars) THEN Result(NoExc, NormalFloat(DigitsToNat(chars), 0))
        ELSE IF /\ Cardinality(dots) = 1
                /\ \E i \in dots : /\ IsDigits(SubSeq(chars, 1, i - 1))
                                    /\ IsDigits(SubSeq(chars, i + 1, Len(chars)))
        THEN LET i == CHOOSE j \in dots : TRUE
                 whole == SubSeq(chars, 1, i - 1)
                 frac == SubSeq(chars, i + 1, Len(chars))
             IN  Result(NoExc, NormalFloat(DigitsToNat(whole \o frac), Len(frac)))
        ELSE Result(Raise("ValueError", "could not convert string to float"), NoneV)

\* value.lower() in ("true", "1", "yes", "on"), for the strs of the model
ParseBool(chars) == Result(NoExc, BoolV(chars = <<"1">>))

\* the top-level keys of DEFAULT_CONFIG
Sections == {"models", "generation", "system", "batch"}

\* the literal DEFAULT_CONFIG (lines 11-32), section by section
DefaultLiteral ==
    [section \in Sections |->
        CASE section = "models" ->
                {<<"default_llm", StrV(<<"Phi-3.5-mini-instruct-4bit">>)>>,
                 <<"default_vlm", StrV(<<"SmolVLM-Instruct-bf16">>)>>,
                 <<"default_alm", StrV(<<"whisper-large-v3-mlx">>)>>}
          [] section = "generation" ->
                {<<"max_tokens", IntV(500)>>,
                 <<"temperature", FloatV(8, 1)>>,
                 <<"top_p", FloatV(95, 2)>>,
                 <<"repetition_penalty", FloatV(1, 0)>>}
          [] section = "system" ->
                {<<"cache_dir", StrV(<<"~/.cache/mlx_models">>)>>,
                 <<"logging_level", StrV(<<"INFO">>)>>,
                 <<"trust_remote_code", BoolV(TRUE)>>}
          [] section = "batch" ->
                {<<"max_concurrent", IntV(4)>>,
                 <<"timeout", IntV(300)>>}]

\* What a top-level key of a configuration mapping holds.  DEFAULT_CONFIG
\* .copy() is a shallow copy: the copy's section is the very dict object of
\* DEFAULT_CONFIG (DefaultRef) until the key is bound to another object, a
\* dict of the instance's own (OwnDict) or a value that is no dict (Scalar).
DefaultRef == [kind |-> "default", items |-> {}, v |-> NoneV]

OwnDict(items) == [kind |-> "dict", items |-> items, v |-> NoneV]

Scalar(v) == [kind |-> "scalar", items |-> {}, v |-> v]

\* self.config = self.DEFAULT_CONFIG.copy() (line 42)
ShallowCopy == {<<section, DefaultRef>> : section \in Sections}

\* no Config instance
NoConfig == {}

\* isinstance(entry, dict)
IsDict(entry) == entry.kind \in {"default", "dict"}

\* the key/value pairs of the dict a top-level key holds
Items(defaults, section, entry) ==
    IF entry.kind = "default" THEN defaults[section] ELSE entry.items

\* Config._merge_config(self.config, override) for an override that is a
\* mapping whose sections hold scalars or mappings of scalars: the nested
\* call updates the dict found at the key in place, which for a DefaultRef
\* is the dict of DEFAULT_CONFIG
_merge_config(defaults, config, override) ==
    LET recursive(section) ==
            /\ KwHas(config, section)
            /\ KwHas(override, section)
            /\ IsDict(KwGet(config, section, DefaultRef))
            /\ KwGet(override, section, DefaultRef).kind = "dict"
    IN  [defaults |->
            [section \in Sections |->
                IF recursive(section) /\ KwGet(config, section, DefaultRef).kind = "default"
                THEN DictUpdate(defaults[section], KwGet(override, section, DefaultRef).items)
                ELSE defaults[section]],
         config |->
            {p \in config : \/ ~KwHas(override, p[1])
                            \/ (recursive(p[1]) /\ p[2].kind = "default")}
            \cup {<<p[1], OwnDict(DictUpdate(p[2].items,
                                             KwGet(override, p[1], DefaultRef).items))>> :
                     p \in {q \in config : recursive(q[1]) /\ q[2].kind = "dict"}}
            \cup {p \in override : ~recursive(p[1])}]

\* the configuration file at config_path: its kind (absent, unparsable as
\* YAML, a non-empty sequence, or a mapping) and, for a mapping, the
\* document yaml.safe_load gives ({} for an empty file)
NoFile == [kind |-> "absent", doc |-> {}]

FileOf(doc) == [kind |-> "mapping", doc |-> doc]

\* Config.load_config: class defaults and instance mapping afterwards.  An
\* empty document is falsy and skipped; a sequence is truthy and makes
\* override.items() raise AttributeError before anything is merged, which
\* the except clause logs
load_config(defaults, config, file) ==
    IF file.kind = "mapping" /\ file.doc # {}
    THEN _merge_config(defaults, config, file.doc)
    ELSE [defaults |-> defaults, config |-> config]

\* env_mappings, in the order of the dict literal (lines 72-81)
env_mappings ==
    << <<"MLX_CACHE_DIR", "system", "cache_dir">>,
       <<"MLX_LOG_LEVEL", "system", "logging_level">>,
       <<"MLX_MAX_TOKENS", "generation", "max_tokens">>,
       <<"MLX_TEMPERATURE", "generation", "temperature">>,
       <<"MLX_TOP_P", "generation", "top_p">>,
       <<"MLX_DEFAULT_LLM", "models", "default_llm">>,
       <<"MLX_DEFAULT_VLM", "models", "default_vlm">>,
       <<"MLX_DEFAULT_ALM", "models", "default_alm">> >>

\* mutant of Coerce: the environment's str is stored as it is
Coerce_none(key, chars) == Result(NoExc, StrV(chars))

\* the conversion of an environment value by the key it goes to (lines 87-92)
Coerce(key, chars) ==
    IF key \in {"max_tokens", "max_concurrent", "timeout"} THEN ParseInt(chars)
    ELSE IF key \in {"temperature", "top_p", "repetition_penalty"} THEN ParseFloat(chars)
    ELSE IF key = "trust_remote_code" THEN ParseBool(chars)
    ELSE Result(NoExc, StrV(chars))

\* self.config[section][key] = value (line 94)
SetItem(st, section, key, value) ==
    IF ~KwHas(st.config, section)
    THEN [st EXCEPT !.exc = Raise("KeyError", section)]
    ELSE LET entry == KwGet(st.config, section, DefaultRef)
         IN  IF entry.kind = "scalar"
             THEN [st EXCEPT !.exc = Raise("TypeError",
                                           "object does not support item assignment")]
             ELSE IF entry.kind = "default"
             THEN [st EXCEPT !.defaults[section] = DictUpdate(@, {<<key, value>>})]
             ELSE [st EXCEPT !.config =
                       DictUpdate(@, {<<section,
                                        OwnDict(DictUpdate(entry.items, {<<key, value>>}))>>})]

\* the loop of Config.load_env_vars from mapping i on; an exception ends it
RECURSIVE load_env_vars(_, _, _)
load_env_vars(st, env, i) ==
    IF i > Len(env_mappings) \/ st.exc # NoExc THEN st
    ELSE LET env_var == env_mappings[i][1]
             section == env_mappings[i][2]
             key == env_mappings[i][3]
         IN  IF ~KwHas(env, env_var) THEN load_env_vars(st, env, i + 1)
             ELSE LET value == Coerce(key, KwGet(env, env_var, <<>>))
                  IN  IF value.exc # NoExc THEN [st EXCEPT !.exc = value.exc]
                      ELSE load_env_vars(SetItem(st, section, key, value.value),
                                         env, i + 1)

\* Config.__init__: class defaults afterwards, the instance's mapping and
\* the exception that left the constructor
Config_init(defaults, file, env) ==
    LET loaded == load_config(defaults, ShallowCopy, file)
    IN  load_env_vars([defaults |-> loaded.defaults, config |-> loaded.config,
                       exc |-> NoExc], env, 1)

\* Config.get(section, key, default)
get(defaults, config, section, key, default) ==
    IF ~KwHas(config, section) THEN Result(NoExc, default)
    ELSE LET entry == KwGet(config, section, DefaultRef)
         IN  IF entry.kind = "scalar"
             THEN Result(Raise("AttributeError", "object has no attribute 'get'"), NoneV)
             ELSE Result(NoExc, KwGet(Items(defaults, section, entry), key, default))

\* Config.set(section, key, value): class defaults, instance mapping and
\* exception afterwards
set(defaults, config, section, key, value) ==
    SetItem([defaults |-> defaults,
             config |-> IF KwHas(config, section) THEN config
                        ELSE config \cup {<<section, OwnDict({})>>},
             exc |-> NoExc],
            section, key, value)

\* a mapping handed to the caller: its items, and whether it is the very
\* dict object the store holds under the section
Returned(shared, items) == [shared |-> shared, items |-> items, mutated |-> FALSE]

\* mutant of get_section: the section's dict itself is returned
get_section_alias(defaults, config, section) ==
    IF ~KwHas(config, section) THEN Result(NoExc, Returned(FALSE, {}))
    ELSE LET entry == KwGet(config, section, DefaultRef)
         IN  IF entry.kind = "scalar"
             THEN Result(Raise("AttributeError", "object has no attribute 'copy'"),
                         Returned(FALSE, {}))
             ELSE Result(NoExc, Returned(TRUE, Items(defaults, section, entry)))

\* Config.get_section(section): self.config.get(section, {}).copy()
get_section(defaults, config, section) ==
    IF ~KwHas(config, section) THEN Result(NoExc, Returned(FALSE, {}))
    ELSE LET entry == KwGet(config, section, DefaultRef)
         IN  IF entry.kind = "scalar"
             THEN Result(Raise("AttributeError", "object has no attribute 'copy'"),
                         Returned(FALSE, {}))
             ELSE Result(NoExc, Returned(FALSE, Items(defaults, section, entry)))

\* 10^e
RECURSIVE Pow10(_)
Pow10(e) == IF e = 0 THEN 1 ELSE 10 * Pow10(e - 1)

\* Config.validate_config, with the answer of mkdir: the exception, or the
\* boolean returned.  IsNumber: Python orders the value against a number;
\* Truthy: bool(v)
validate_config(defaults, config, ext) ==
    LET IsNumber(v) == v.t \in {"int", "float", "bool"}
        Truthy(v) == IF v.t = "str" THEN v.s # <<>> ELSE v.i # 0
        gen_config == KwGet(config, "generation", OwnDict({}))
        sys_config == KwGet(config, "system", OwnDict({}))
        gen == Items(defaults, "generation", gen_config)
        max_tokens == KwGet(gen, "max_tokens", IntV(0))
        temperature == KwGet(gen, "temperature", FloatV(8, 1))
        top_p == KwGet(gen, "top_p", FloatV(95, 2))
        cache_dir == KwGet(Items(defaults, "system", sys_config), "cache_dir", NoneV)
        errors ==
            (IF max_tokens.i <= 0 THEN {"max_tokens must be positive"} ELSE {})
            \cup (IF 0 < temperature.i /\ temperature.i <= 2 * Pow10(temperature.e)
                  THEN {} ELSE {"temperature must be between 0 and 2.0"})
            \cup (IF 0 < top_p.i /\ top_p.i <= Pow10(top_p.e)
                  THEN {} ELSE {"top_p must be between 0 and 1.0"})
            \cup (IF /\ Truthy(cache_dir)
                     /\ (cache_dir.t # "str" \/ ext = "mkdir_raises")
                  THEN {"Invalid cache_dir"} ELSE {})
    IN  IF gen_config.kind = "scalar"
        THEN Result(Raise("AttributeError", "object has no attribute 'get'"), FALSE)
        ELSE IF ~IsNumber(max_tokens) \/ ~IsNumber(temperature) \/ ~IsNumber(top_p)
        THEN Result(Raise("TypeError", "'<=' not supported between instances"), FALSE)
        ELSE IF sys_config.kind = "scalar"
        THEN Result(Raise("AttributeError", "object has no attribute 'get'"), FALSE)
        ELSE Result(NoExc, errors = {})

\* str(n) for a natural number
RECURSIVE NatToDigits(_)
NatToDigits(n) ==
    IF n < 10 THEN <<CHOOSE c \in DOMAIN DigitValue : DigitValue[c] = n>>
    ELSE NatToDigits(n \div 10) \o NatToDigits(n % 10)

\* the last e digits of n, leading zeros included
RECURSIVE FractionDigits(_, _)
FractionDigits(n, e) ==
    IF e = 0 THEN <<>> ELSE FractionDigits(n \div 10, e - 1) \o NatToDigits(n % 10)

\* repr(x) for the float i / 10^e
FloatRepr(v) ==
    NatToDigits(v.i \div Pow10(v.e)) \o <<".">>
    \o (IF v.e = 0 THEN <<"0">> ELSE FractionDigits(v.i % Pow10(v.e), v.e))

\* the value yaml.safe_load resolves a plain scalar to
YamlResolve(chars) ==
    IF chars \in {<<>>, <<"null">>, <<"~">>} THEN NoneV
    ELSE IF chars \in {<<"true">>, <<"false">>} THEN BoolV(chars = <<"true">>)
    ELSE IF IsDigits(chars) THEN ParseInt(chars).value
    ELSE IF ParseFloat(chars).exc = NoExc THEN ParseFloat(chars).value
    ELSE StrV(chars)

\* mutant of YamlNode: a str is written plain whatever it spells
YamlNode_plain(v) ==
    [quoted |-> FALSE,
     chars |-> CASE v.t = "int" -> NatToDigits(v.i)
                 [] v.t = "float" -> FloatRepr(v)
                 [] v.t = "bool" -> IF v.i = 1 THEN <<"true">> ELSE <<"false">>
                 [] v.t = "None" -> <<"null">>
                 [] v.t = "str" -> v.s]

\* the scalar yaml.dump writes for a value: a str that a plain scalar would
\* resolve to something else is quoted
YamlNode(v) ==
    [quoted |-> v.t = "str" /\ YamlResolve(v.s).t # "str",
     chars |-> CASE v.t = "int" -> NatToDigits(v.i)
                 [] v.t = "float" -> FloatRepr(v)
                 [] v.t = "bool" -> IF v.i = 1 THEN <<"true">> ELSE <<"false">>
                 [] v.t = "None" -> <<"null">>
                 [] v.t = "str" -> v.s]

\* the mapping self.config compares equal to: every section with the items
\* of the dict it holds
Resolved(defaults, config) ==
    {<<p[1], IF p[2].kind = "default" THEN OwnDict(defaults[p[1]]) ELSE p[2]>> :
        p \in config}

\* yaml.dump(mapping, f): the text, section by section
yaml_dump(mapping) ==
    {<<p[1], [kind |-> p[2].kind,
              items |-> {<<q[1], YamlNode(q[2])>> : q \in p[2].items},
              v |-> YamlNode(p[2].v)]>> : p \in mapping}

\* yaml.safe_load(f) of such a text: a quoted scalar is a str
yaml_safe_load(text) ==
    LET YamlValue(node) ==
            IF node.quoted THEN StrV(node.chars) ELSE YamlResolve(node.chars)
    IN
    {<<p[1], [kind |-> p[2].kind,
              items |-> {<<q[1], YamlValue(q[2])>> : q \in p[2].items},
              v |-> YamlValue(p[2].v)]>> : p \in text}

\* Config.save_config(path), with the answer of open: the exception, or the
\* file found at path afterwards
save_config(defaults, config, ext) ==
    IF ext = "open_raises"
    THEN Result(Raise("OSError", "open failed"), NoFile)
    ELSE Result(NoExc, FileOf(yaml_safe_load(yaml_dump(Resolved(defaults, config)))))

\* Config.create_default_config(path): the same for DEFAULT_CONFIG
create_default_config(defaults, ext) ==
    IF ext = "open_raises"
    THEN Result(Raise("OSError", "open failed"), NoFile)
    ELSE Result(NoExc,
                FileOf(yaml_safe_load(yaml_dump(
                    {<<section, OwnDict(defaults[section])>> : section \in Sections}))))

----------------------------------------------------------------------------
(* The callers' inputs *)

\* all sequences over S of length at most n
SeqsUpTo(S, n) == UNION {[1..k -> S] : k \in 0..n}

\* what a caller may hand over as a model identity
ModelArgs == Identities \cup NonIdentities

\* the names a caller may ask the registry about
ModelNames == {x.value : x \in Identities}

Prompts == {"hello", ""}

\* keyword options of compare_models and batch_process
KwargsChoices == {{}, {<<"images", "img.png">>}, {<<"audio_file", "a.wav">>}}

\* input records of batch_process
InputRecords ==
    {Record(TRUE, {<<"prompt", "hello">>, <<"images", "img.png">>, <<"audio_file", "a.wav">>}),
     Record(TRUE, {}),
     Record(FALSE, {})}

\* the config dicts a facade is constructed with: none, and the one of
\* examples/audio_processing.py
ConfigChoices == {{}, {<<"temperature", "0.0">>, <<"language", "ja">>}}

\* the keyword overrides of a direct generate or stream call
OptionChoices == {{}, {<<"temperature", "0.3">>}}

\* the (prompt, audio_file) pairs stream is called with
StreamCalls == {<<"hello", "a.wav">>, <<"", None>>}

\* the values an environment variable is set to: the characters of "250"
\* and, for the variables converted to numbers, of "0.5"
EnvSamples(env_var) ==
    IF env_var \in {"MLX_MAX_TOKENS", "MLX_TEMPERATURE", "MLX_TOP_P"}
    THEN {<<"2", "5", "0">>, <<"0", ".", "5">>}
    ELSE {<<"2", "5", "0">>}

\* os.environ restricted to the recognized variables: a dict with at most
\* MaxEnvVars of them set
Environments ==
    LET pairs == UNION {{<<env_mappings[i][1], chars>> :
                            chars \in EnvSamples(env_mappings[i][1])} :
                        i \in 1..Len(env_mappings)}
    IN  {env \in SUBSET pairs :
            /\ Cardinality(env) <= MaxEnvVars
            /\ \A p, q \in env : p[1] = q[1] => p = q}

\* the configuration files: none, one that is no YAML, an empty one, one
\* that holds a sequence, one that sets only generation.temperature (to
\* 0.1), one that binds generation to a number
ConfigFiles ==
    {NoFile,
     [kind |-> "unparsable", doc |-> {}],
     FileOf({}),
     [kind |-> "sequence", doc |-> {}],
     FileOf({<<"generation", OwnDict({<<"temperature", FloatV(1, 1)>>})>>}),
     FileOf({<<"generation", Scalar(IntV(5))>>})}

\* the (section, key) pairs get is called with
GetCalls ==
    {<<env_mappings[i][2], env_mappings[i][3]>> : i \in 1..Len(env_mappings)}
    \cup {<<"batch", "timeout">>, <<"plugins", "path">>}

\* the (section, key, value) triples set is called with
SetCalls ==
    {<<"generation", "max_tokens", IntV(0)>>,
     <<"plugins", "path", StrV(<<"2", "5", "0">>)>>}

\* what a caller does to a mapping it was handed: section[key] = value, or
\* del section[key]
Mutations ==
    {[op |-> "setitem", key |-> "max_tokens", value |-> IntV(1)],
     [op |-> "delitem", key |-> "path", value |-> NoneV]}

\* the (prompt, options) pairs compare_models is called with
CompareCalls ==
    {pk \in Prompts \X KwargsChoices : pk[1] = "" => pk[2] = {}}

\* the answers the external loader can give when x is loaded: an answer is
\* drawn only for a call that can be made
LoadAnswers(x) ==
    IF x \in VLMs THEN ExtLoadOutcomes
    ELSE IF x \in LLMs \/ (x \in ALMs /\ ContainsWhisper(x.value))
    THEN {"ok", "load_raises"}
    ELSE {"ok"}

\* the answers the external generation call can give for a driver of x
GenAnswers(x) ==
    IF x \in Identities /\ ~ContainsKokoro(x.value) THEN ExtGenOutcomes ELSE {"ok"}

\* one answer per list position
LoadOracles(models) ==
    {o \in [1..Len(models) -> ExtLoadOutcomes] :
        \A i \in 1..Len(models) :
            o[i] \in (IF HasValue(models[i]) /\ HasKey(_models, models[i].value)
                      THEN {"ok"} ELSE LoadAnswers(models[i]))}

\* batch_process: a record that is no mapping never gets to a generate call
BatchGenOracles(inputs, x) ==
    {o \in [1..Len(inputs) -> ExtGenOutcomes] :
        \A i \in 1..Len(inputs) :
            o[i] \in (IF inputs[i].isdict THEN GenAnswers(x) ELSE {"ok"})}

CompareGenOracles(models) ==
    {o \in [1..Len(models) -> ExtGenOutcomes] :
        \A i \in 1..Len(models) : o[i] \in GenAnswers(models[i])}

----------------------------------------------------------------------------
(* The state machine *)

\* no call is in progress or waiting to be looked at
Idle == [op |-> "idle", args |-> <<>>, pre |-> <<>>, exc |-> NoExc, ret |-> <<>>]

\* the registry as a call finds it
Pre == [_models |-> _models, _active_model |-> _active_model]

Init ==
    /\ _models = <<>>
    /\ _active_model = NoDriver
    /\ facade = NoDriver
    /\ loaded_ok = FALSE
    /\ generator = NoGenerator
    /\ DEFAULT_CONFIG = DefaultLiteral
    /\ cfg = NoConfig
    /\ environ = {}
    /\ call = Idle

\* driver.load_model(model_enum)
LoadModel ==
    /\ call.op = "idle"
    /\ \E model_enum \in ModelArgs : \E ext \in LoadAnswers(model_enum) :
           LET r == load_model(_models, _active_model, model_enum, ext)
           IN  /\ _models' = r._models
               /\ _active_model' = r._active_model
               /\ call' = [op |-> "load_model",
                           args |-> [model_enum |-> model_enum, ext |-> ext],
                           pre |-> Pre, exc |-> r.exc, ret |-> r.ret]
               /\ UNCHANGED <<facade_vars, config_vars>>

\* driver.unload_model(model_name)
UnloadModel ==
    /\ call.op = "idle"
    /\ \E model_name \in ModelNames :
           LET r == unload_model(_models, _active_model, model_name)
           IN  /\ _models' = r._models
               /\ _active_model' = r._active_model
               /\ call' = [op |-> "unload_model", args |-> [model_name |-> model_name],
                           pre |-> Pre, exc |-> NoExc, ret |-> r.ret]
               /\ UNCHANGED <<facade_vars, config_vars>>

\* driver.set_active_model(model_name)
SetActiveModel ==
    /\ call.op = "idle"
    /\ \E model_name \in ModelNames :
           LET r == set_active_model(_models, _active_model, model_name)
           IN  /\ _models' = r._models
               /\ _active_model' = r._active_model
               /\ call' = [op |-> "set_active_model", args |-> [model_name |-> model_name],
                           pre |-> Pre, exc |-> NoExc, ret |-> r.ret]
               /\ UNCHANGED <<facade_vars, config_vars>>

\* driver.compare_models(models, prompt, **kwargs)
CompareModels ==
    /\ call.op = "idle"
    /\ \E models \in SeqsUpTo(ModelArgs, MaxModels) :
       \E pk \in CompareCalls :
       \E extLoad \in LoadOracles(models) : \E extGen \in CompareGenOracles(models) :
           LET prompt == pk[1]
               kwargs == pk[2]
               st == compare_models(models, prompt, kwargs, extLoad, extGen)
           IN  /\ _models' = st._models
               /\ _active_model' = st._active_model
               /\ call' = [op |-> "compare_models",
                           args |-> [models |-> models, prompt |-> prompt, kwargs |-> kwargs,
                                     extLoad |-> extLoad, extGen |-> extGen],
                           pre |-> Pre, exc |-> st.exc,
                           ret |-> [results |-> st.results, items |-> st.items]]
               /\ UNCHANGED <<facade_vars, config_vars>>

\* driver.batch_process(inputs, model_enum, **kwargs)
BatchProcess ==
    /\ call.op = "idle"
    /\ \E inputs \in SeqsUpTo(InputRecords, MaxInputs) :
       \E model_enum \in ModelArgs : \E kwargs \in KwargsChoices :
       \E extLoad \in (IF HasValue(model_enum) /\ HasKey(_models, model_enum.value)
                       THEN {"ok"} ELSE LoadAnswers(model_enum)) :
       \E extGen \in BatchGenOracles(inputs, model_enum) :
           LET r == batch_process(inputs, model_enum, kwargs, extLoad, extGen)
           IN  /\ _models' = r._models
               /\ _active_model' = r._active_model
               /\ call' = [op |-> "batch_process",
                           args |-> [inputs |-> inputs, model_enum |-> model_enum,
                                     kwargs |-> kwargs, extLoad |-> extLoad, extGen |-> extGen],
                           pre |-> Pre, exc |-> r.exc,
                           ret |-> [results |-> r.results, items |-> r.items,
                                    driver |-> r.driver]]
               /\ UNCHANGED <<facade_vars, config_vars>>

\* An object's identity is only ever compared with another's, so the live
\* drivers of one name are renumbered 1, 2, ... in the order of their ids:
\* every equality between live drivers is kept (a symmetry reduction).
Renumber(d, live) ==
    IF d = NoDriver THEN d
    ELSE [d EXCEPT !.id = 1 + Cardinality({x \in live : /\ x.model_name = d.model_name
                                                         /\ x.id < d.id})]

\* the caller has looked at what its call gave and dropped it
Return ==
    LET live == {_models[i].value : i \in 1..Len(_models)} \cup {_active_model, facade}
    IN  /\ call.op # "idle"
        /\ call' = Idle
        /\ _models' = [i \in 1..Len(_models) |->
                          [key |-> _models[i].key,
                           value |-> Renumber(_models[i].value, live)]]
        /\ _active_model' = Renumber(_active_model, live)
        /\ facade' = Renumber(facade, live)
        /\ UNCHANGED <<loaded_ok, generator, config_vars>>

\* LLMDriver(x, config), VLMDriver(x, config) or ALMDriver(x, config), for x
\* of the matching enum; the caller drops the facade and generator it held
Construct ==
    /\ call.op = "idle"
    /\ \E model_enum \in Identities : \E config \in ConfigChoices :
           /\ facade' = NewDriver(DriverClass(model_enum), model_enum, config,
                                  FreshId(_models, _active_model, model_enum.value))
           /\ loaded_ok' = FALSE
           /\ generator' = NoGenerator
           /\ call' = [op |-> "construct",
                       args |-> [model_enum |-> model_enum, config |-> config],
                       pre |-> Pre, exc |-> NoExc, ret |-> <<>>]
           /\ UNCHANGED <<config_vars, _models, _active_model>>

\* the answers the external loader can give to facade d
DriverLoadAnswers(d) ==
    IF d.cls = "VLMDriver" THEN ExtLoadOutcomes
    ELSE IF ContainsKokoro(d.model_name) THEN {"ok"}
    ELSE {"ok", "load_raises"}

\* facade.load()
FacadeLoad ==
    /\ call.op = "idle"
    /\ facade # NoDriver
    /\ \E ext \in DriverLoadAnswers(facade) :
           LET r == Driver_load(facade, ext)
           IN  /\ facade' = r.driver
               /\ loaded_ok' = (loaded_ok \/ r.exc = NoExc)
               /\ call' = [op |-> "load",
                           args |-> [ext |-> ext, facade |-> facade,
                                     loaded_ok |-> loaded_ok],
                           pre |-> Pre, exc |-> r.exc, ret |-> <<>>]
               /\ UNCHANGED <<config_vars, _models, _active_model, generator>>

\* facade.generate(...)
FacadeGenerate ==
    /\ call.op = "idle"
    /\ facade # NoDriver
    /\ \E prompt \in Prompts \cup {None} : \E images \in {None, "img.png"} :
       \E audio_file \in {None, "a.wav"} : \E kwargs \in OptionChoices :
       \E ext \in ExtGenOutcomes :
           LET out == Driver_generate(facade, prompt, images, audio_file, kwargs, ext)
           IN  /\ call' = [op |-> "generate",
                           args |-> [prompt |-> prompt, images |-> images,
                                     audio_file |-> audio_file, kwargs |-> kwargs,
                                     ext |-> ext],
                           pre |-> Pre, exc |-> out.exc,
                           ret |-> [value |-> out.ret, ext_calls |-> out.ext_calls,
                                    options |-> out.options]]
               /\ UNCHANGED <<config_vars, _models, _active_model, facade_vars>>

\* facade.batch_generate(prompts)
FacadeBatchGenerate ==
    /\ call.op = "idle"
    /\ facade # NoDriver
    /\ \E prompts \in SeqsUpTo(Prompts, MaxPrompts) :
       \E ext \in [1..Len(prompts) -> ExtGenOutcomes] :
           LET r == batch_generate(facade, prompts, {}, ext,
                                   [ret |-> <<>>, calls |-> <<>>, exc |-> NoExc])
           IN  /\ call' = [op |-> "batch_generate",
                           args |-> [prompts |-> prompts, ext |-> ext],
                           pre |-> Pre, exc |-> r.exc,
                           ret |-> [value |-> r.ret, calls |-> r.calls]]
               /\ UNCHANGED <<config_vars, _models, _active_model, facade_vars>>

\* generator = facade.stream(...): none of the body runs
FacadeStream ==
    /\ call.op = "idle"
    /\ facade # NoDriver
    /\ \E pa \in StreamCalls : \E kwargs \in OptionChoices :
           /\ generator' = NewGenerator(pa[1], None, pa[2], kwargs)
           /\ call' = [op |-> "stream",
                       args |-> [prompt |-> pa[1], audio_file |-> pa[2],
                                 kwargs |-> kwargs],
                       pre |-> Pre, exc |-> NoExc, ret |-> <<>>]
           /\ UNCHANGED <<config_vars, _models, _active_model, facade, loaded_ok>>

\* the answers the external iterator can give to the next() the body makes
StreamAnswers(g) ==
    IF g.produced < MaxFragments THEN {"fragment", "end", "raises"} ELSE {"end", "raises"}

\* next(generator): the consumer asks for the next fragment
GeneratorNext ==
    /\ call.op = "idle"
    /\ facade # NoDriver
    /\ generator.state # "none"
    /\ \E ext \in StreamAnswers(generator) :
           LET r == Driver_stream(facade, generator, ext)
           IN  /\ generator' = r.gen
               /\ call' = [op |-> "next",
                           args |-> [ext |-> ext, generator |-> generator,
                                     loaded_ok |-> loaded_ok],
                           pre |-> Pre, exc |-> r.exc, ret |-> r.value]
               /\ UNCHANGED <<config_vars, _models, _active_model, facade, loaded_ok>>

\* cfg = Config(config_path), with the file at config_path as the caller
\* set it up and os.environ patched for the duration of the call; cfg is
\* bound only when the constructor returns
NewConfig ==
    /\ call.op = "idle"
    /\ \E file \in ConfigFiles : \E env \in Environments :
           LET r == Config_init(DEFAULT_CONFIG, file, env)
           IN  /\ DEFAULT_CONFIG' = r.defaults
               /\ cfg' = IF r.exc = NoExc THEN r.config ELSE cfg
               /\ call' = [op |-> "Config", args |-> [file |-> file, env |-> env],
                           pre |-> [DEFAULT_CONFIG |-> DEFAULT_CONFIG, cfg |-> cfg],
                           exc |-> r.exc, ret |-> <<>>]
               /\ UNCHANGED <<_models, _active_model, facade_vars, environ>>

\* cfg.get(section, key)
ConfigGet ==
    /\ call.op = "idle"
    /\ cfg # NoConfig
    /\ \E sk \in GetCalls :
           LET r == get(DEFAULT_CONFIG, cfg, sk[1], sk[2], NoneV)
           IN  /\ call' = [op |-> "get", args |-> [section |-> sk[1], key |-> sk[2]],
                           pre |-> [DEFAULT_CONFIG |-> DEFAULT_CONFIG, cfg |-> cfg],
                           exc |-> r.exc, ret |-> r.value]
               /\ UNCHANGED <<_models, _active_model, facade_vars, config_vars>>

\* cfg = Config(config_path) in a process whose os.environ is set (here:
\* MLX_MAX_TOKENS, MLX_CACHE_DIR) before its first Config comes into being
\* and left alone from then on
SetupConfig ==
    /\ call.op = "idle"
    /\ \E file \in ConfigFiles :
       \E env \in (IF cfg = NoConfig
                   THEN {e \in Environments :
                           \A p \in e : p[1] \in {"MLX_MAX_TOKENS", "MLX_CACHE_DIR"}}
                   ELSE {environ}) :
           LET r == Config_init(DEFAULT_CONFIG, file, env)
           IN  /\ DEFAULT_CONFIG' = r.defaults
               /\ cfg' = IF r.exc = NoExc THEN r.config ELSE cfg
               /\ environ' = env
               /\ call' = [op |-> "Config",
                           args |-> [file |-> file, env |-> env, saved |-> {}],
                           pre |-> [DEFAULT_CONFIG |-> DEFAULT_CONFIG, cfg |-> cfg], exc |-> r.exc, ret |-> <<>>]
               /\ UNCHANGED <<_models, _active_model, facade_vars>>

\* cfg.set(section, key, value)
ConfigSet ==
    /\ call.op = "idle"
    /\ cfg # NoConfig
    /\ \E skv \in SetCalls :
           LET r == set(DEFAULT_CONFIG, cfg, skv[1], skv[2], skv[3])
           IN  /\ DEFAULT_CONFIG' = r.defaults
               /\ cfg' = r.config
               /\ call' = [op |-> "set",
                           args |-> [section |-> skv[1], key |-> skv[2], value |-> skv[3]],
                           pre |-> [DEFAULT_CONFIG |-> DEFAULT_CONFIG, cfg |-> cfg], exc |-> r.exc, ret |-> <<>>]
               /\ UNCHANGED <<_models, _active_model, facade_vars, environ>>

\* cfg.get_section(section)
ConfigGetSection ==
    /\ call.op = "idle"
    /\ cfg # NoConfig
    /\ \E section \in {"generation", "plugins"} :
           LET r == get_section(DEFAULT_CONFIG, cfg, section)
           IN  /\ call' = [op |-> "get_section", args |-> [section |-> section],
                           pre |-> [DEFAULT_CONFIG |-> DEFAULT_CONFIG, cfg |-> cfg], exc |-> r.exc, ret |-> r.value]
               /\ UNCHANGED <<_models, _active_model, facade_vars, config_vars>>

\* the caller changes the mapping get_section handed over; the store's dict
\* changes with it when the two are one object
CallerMutates ==
    /\ call.op = "get_section"
    /\ call.exc = NoExc
    /\ ~call.ret.mutated
    /\ \E m \in Mutations :
           LET items == IF m.op = "setitem"
                        THEN DictUpdate(call.ret.items, {<<m.key, m.value>>})
                        ELSE {p \in call.ret.items : p[1] # m.key}
               section == call.args.section
               entry == KwGet(cfg, section, DefaultRef)
           IN  /\ m.op = "delitem" => KwHas(call.ret.items, m.key)
               /\ call' = [call EXCEPT !.ret.items = items, !.ret.mutated = TRUE]
               /\ DEFAULT_CONFIG' =
                      IF call.ret.shared /\ entry.kind = "default"
                      THEN [DEFAULT_CONFIG EXCEPT ![section] = items]
                      ELSE DEFAULT_CONFIG
               /\ cfg' = IF call.ret.shared /\ entry.kind = "dict"
                         THEN DictUpdate(cfg, {<<section, OwnDict(items)>>})
                         ELSE cfg
               /\ UNCHANGED <<_models, _active_model, facade_vars, environ>>

\* cfg.validate_config()
ConfigValidate ==
    /\ call.op = "idle"
    /\ cfg # NoConfig
    /\ \E ext \in {"ok", "mkdir_raises"} :
           LET r == validate_config(DEFAULT_CONFIG, cfg, ext)
           IN  /\ call' = [op |-> "validate_config", args |-> [ext |-> ext],
                           pre |-> [DEFAULT_CONFIG |-> DEFAULT_CONFIG, cfg |-> cfg], exc |-> r.exc, ret |-> r.value]
               /\ UNCHANGED <<_models, _active_model, facade_vars, config_vars>>

\* cfg.save_config(path)
ConfigSave ==
    /\ call.op = "idle"
    /\ cfg # NoConfig
    /\ \E ext \in {"ok", "open_raises"} :
           LET r == save_config(DEFAULT_CONFIG, cfg, ext)
           IN  /\ call' = [op |-> "save_config", args |-> [ext |-> ext],
                           pre |-> [DEFAULT_CONFIG |-> DEFAULT_CONFIG, cfg |-> cfg], exc |-> r.exc, ret |-> r.value]
               /\ UNCHANGED <<_models, _active_model, facade_vars, config_vars>>

\* cfg = Config(path) right after cfg.save_config(path) returned, os.environ
\* being what it was
ReloadSaved ==
    /\ call.op = "save_config"
    /\ call.exc = NoExc
    /\ LET r == Config_init(DEFAULT_CONFIG, call.ret, environ)
       IN  /\ DEFAULT_CONFIG' = r.defaults
           /\ cfg' = IF r.exc = NoExc THEN r.config ELSE cfg
           /\ call' = [op |-> "Config",
                       args |-> [file |-> call.ret, env |-> environ,
                                 saved |-> Resolved(DEFAULT_CONFIG, cfg)],
                       pre |-> [DEFAULT_CONFIG |-> DEFAULT_CONFIG, cfg |-> cfg], exc |-> r.exc, ret |-> <<>>]
           /\ UNCHANGED <<_models, _active_model, facade_vars, environ>>

\* cfg.create_default_config(path)
CreateDefaultConfig ==
    /\ call.op = "idle"
    /\ cfg # NoConfig
    /\ \E ext \in {"ok", "open_raises"} :
           LET r == create_default_config(DEFAULT_CONFIG, ext)
           IN  /\ call' = [op |-> "create_default_config", args |-> [ext |-> ext],
                           pre |-> [DEFAULT_CONFIG |-> DEFAULT_CONFIG, cfg |-> cfg], exc |-> r.exc, ret |-> r.value]
               /\ UNCHANGED <<_models, _active_model, facade_vars, config_vars>>

Next ==
    \/ LoadModel
    \/ UnloadModel
    \/ SetActiveModel
    \/ CompareModels
    \/ BatchProcess
    \/ Return

Spec == Init /\ [][Next]_vars

\* a caller working with one facade directly
FacadeNext ==
    \/ Construct
    \/ FacadeLoad
    \/ FacadeGenerate
    \/ FacadeBatchGenerate
    \/ FacadeStream
    \/ GeneratorNext
    \/ Return

FacadeSpec == Init /\ [][FacadeNext]_vars

\* a caller working with the configuration store
ConfigNext ==
    \/ NewConfig
    \/ ConfigGet
    \/ Return

ConfigSpec == Init /\ [][ConfigNext]_vars

\* a process that sets its environment, then constructs, changes, checks
\* and saves configurations
StoreNext ==
    \/ SetupConfig
    \/ ConfigSet
    \/ ConfigGetSection
    \/ CallerMutates
    \/ ConfigValidate
    \/ ConfigSave
    \/ ReloadSaved
    \/ CreateDefaultConfig
    \/ Return

StoreSpec == Init /\ [][StoreNext]_vars

----------------------------------------------------------------------------
(* Properties of the registry *)

\* the handles stored in a dict
Values(d) == {d[i].value : i \in 1..Len(d)}

\* how often key k occurs in list(d.keys())
Occurrences(d, k) == Cardinality({i \in 1..Len(d) : Keys(d)[i] = k})

\* C1: after any sequence of load_model (succeeding or failing),
\* unload_model, set_active_model, compare_models and batch_process, the
\* active reference is none or a handle that is a value of the mapping.
C1_ActiveInMapping ==
    _active_model = NoDriver \/ _active_model \in Values(_models)

\* C1 witness: a handle other than the active one was unloaded and an active
\* handle remains.
C1_Witness ==
    /\ call.op = "unload_model"
    /\ call.ret = TRUE
    /\ call.pre._active_model # NoDriver
    /\ _active_model # NoDriver

\* C2: unload_model(name) called while the handle stored under name is the
\* active one leaves get_active_model() none and name out of
\* list_loaded_models(), both in that one step.
C2_UnloadActiveClears ==
    (/\ call.op = "unload_model"
     /\ HasKey(call.pre._models, call.args.model_name)
     /\ DictGet(call.pre._models, call.args.model_name) = call.pre._active_model)
    => /\ _active_model = NoDriver
       /\ Occurrences(_models, call.args.model_name) = 0

\* C2 witness: the active handle was unloaded while another stayed cached.
C2_Witness ==
    /\ call.op = "unload_model"
    /\ HasKey(call.pre._models, call.args.model_name)
    /\ DictGet(call.pre._models, call.args.model_name) = call.pre._active_model
    /\ Len(_models) >= 1

\* C3: load_model of a value in none of the three enums fails with the
\* unrecognized-identity error and leaves mapping and active reference as
\* they were.
C3_UnknownIdentityRejected ==
    (call.op = "load_model" /\ call.args.model_enum \notin Identities)
    => /\ call.exc = Raise("ValueError", "Unknown model type")
       /\ _models = call.pre._models
       /\ _active_model = call.pre._active_model

\* C3 witness: such a load_model was made on a registry that holds handles.
C3_Witness ==
    /\ call.op = "load_model"
    /\ call.args.model_enum \notin Identities
    /\ Len(_models) >= 1
    /\ _active_model # NoDriver

\* the facade class of each category
CategoryClass(model_enum) ==
    CASE model_enum.type = "LLMs" -> "LLMDriver"
      [] model_enum.type = "VLMs" -> "VLMDriver"
      [] model_enum.type = "ALMs" -> "ALMDriver"

\* C4: a load_model(identity) that succeeds returns a facade of the
\* identity's category; get_model(display name) is that handle, it is the
\* active handle, the name occurs once in list_loaded_models(), and a handle
\* cached under the name before is replaced by it.
C4_LoadStoresAndActivates ==
    (call.op = "load_model" /\ call.exc = NoExc)
    => LET name == call.args.model_enum.value
       IN  /\ call.ret.cls = CategoryClass(call.args.model_enum)
           /\ call.ret._model
           /\ get_model(_models, name) = call.ret
           /\ _active_model = call.ret
           /\ Occurrences(_models, name) = 1
           /\ HasKey(call.pre._models, name)
                => call.ret # DictGet(call.pre._models, name)

\* C4 witness: a load_model succeeded for a name that was already cached.
C4_Witness ==
    /\ call.op = "load_model"
    /\ call.exc = NoExc
    /\ HasKey(call.pre._models, call.args.model_enum.value)
    /\ Len(_models) >= 2

----------------------------------------------------------------------------
(* Properties of compare_models *)

\* position i holds the last occurrence of its element in the list
LastOccurrence(models, i) == \A j \in (i + 1)..Len(models) : models[j] # models[i]

\* the external loader is asked for element i and fails
LoadFailsAt(i) ==
    LET x == call.args.models[i]
    IN  /\ ~HasKey(call.pre._models, x.value)
        /\ \A j \in 1..(i - 1) : call.args.models[j] # x
        /\ Driver_load(NewDriver(CategoryClass(x), x, {}, 1), call.args.extLoad[i]).exc # NoExc

\* C5: compare_models over a list of identities does not raise; an identity
\* whose load or generate fails gets an error string under its display name,
\* and every other identity is still processed and gets its own entry, its
\* real result when its generate call succeeds.
C5_CompareIsolatesFailures ==
    (/\ call.op = "compare_models"
     /\ \A i \in 1..Len(call.args.models) : call.args.models[i] \in Identities)
    => LET models == call.args.models
           results == call.ret.results
           items == call.ret.items
       IN  /\ call.exc = NoExc
           /\ Len(items) = Len(models)
           /\ \A i \in 1..Len(models) :
                LET name == models[i].value
                IN  /\ HasKey(results, name)
                    /\ LoadFailsAt(i) => items[i].exc # NoExc
                    /\ LastOccurrence(models, i) =>
                         /\ items[i].exc # NoExc =>
                              /\ DictGet(results, name) = ErrorString(items[i].exc)
                              /\ IsErrorString(DictGet(results, name))
                         /\ items[i].exc = NoExc =>
                              /\ ~IsErrorString(DictGet(results, name))
                              /\ SubSeq(DictGet(results, name), 1, 2) = <<"text", name>>

\* C5 witness: the first identity's load failed, the second one's generate
\* succeeded.
C5_Witness ==
    /\ call.op = "compare_models"
    /\ Len(call.args.models) = 2
    /\ \A i \in 1..2 : call.args.models[i] \in Identities
    /\ LoadFailsAt(1)
    /\ call.ret.items[2].exc = NoExc
    /\ Len(call.ret.results) = 2

\* C6: compare_models over a vision identity with an images option records
\* the vision facade's result for that prompt and those images, not an error
\* string, whenever the facade's generate succeeds on them.
C6_CompareVisionWithImages ==
    (call.op = "compare_models" /\ KwHas(call.args.kwargs, "images"))
    => \A i \in 1..Len(call.args.models) :
         LET x == call.args.models[i]
         IN  (/\ x \in VLMs
              /\ call.exc = NoExc
              /\ LastOccurrence(call.args.models, i)
              /\ HasKey(_models, x.value))
             => LET out == VLMDriver_generate(DictGet(_models, x.value),
                                              call.args.prompt,
                                              KwGet(call.args.kwargs, "images", None),
                                              call.args.kwargs, call.args.extGen[i])
                IN  out.exc = NoExc =>
                      /\ HasKey(call.ret.results, x.value)
                      /\ DictGet(call.ret.results, x.value) = out.ret

\* C7: compare_models over a loaded whisper identity with an audio_file
\* option records the transcription of that file, not an error string,
\* whenever the transcription succeeds.
C7_CompareAudioWithFile ==
    (call.op = "compare_models" /\ KwHas(call.args.kwargs, "audio_file"))
    => \A i \in 1..Len(call.args.models) :
         LET x == call.args.models[i]
         IN  (/\ x \in ALMs
              /\ ContainsWhisper(x.value)
              /\ call.exc = NoExc
              /\ LastOccurrence(call.args.models, i)
              /\ HasKey(call.pre._models, x.value))
             => LET out == ALMDriver_generate(DictGet(_models, x.value),
                                              KwGet(call.args.kwargs, "audio_file", None),
                                              None, call.args.kwargs, call.args.extGen[i])
                IN  out.exc = NoExc =>
                      /\ HasKey(call.ret.results, x.value)
                      /\ DictGet(call.ret.results, x.value) = out.ret

----------------------------------------------------------------------------
(* Properties of batch_process *)

\* the model of a batch_process call is cached or its load succeeds
BatchModelLoads ==
    LET x == call.args.model_enum
    IN  /\ x \in Identities
        /\ \/ HasKey(call.pre._models, x.value)
           \/ Driver_load(NewDriver(CategoryClass(x), x, {}, 1), call.args.extLoad).exc = NoExc

\* C8: for a model that is loaded or loads successfully, batch_process
\* returns a list as long as inputs whose i-th element is the outcome (result
\* or error string) of generating for inputs[i].
C8_BatchPreservesOrder ==
    (call.op = "batch_process" /\ BatchModelLoads)
    => LET name == call.args.model_enum.value
       IN  /\ call.exc = NoExc
           /\ Len(call.ret.results) = Len(call.args.inputs)
           /\ \A i \in 1..Len(call.args.inputs) :
                call.ret.results[i] =
                    BatchItem(DictGet(_models, name), name, call.args.inputs[i],
                              call.args.kwargs, call.args.extGen[i]).result

\* C8 witness: two records with different outcomes were processed.
C8_Witness ==
    /\ call.op = "batch_process"
    /\ BatchModelLoads
    /\ Len(call.args.inputs) = 2
    /\ Len(call.ret.results) = 2
    /\ call.ret.results[1] # call.ret.results[2]
    /\ ~IsErrorString(call.ret.results[1])

\* record i of a batch_process call fails: it is no mapping, its prompt is
\* missing or empty (text, vision), its audio file is missing (audio), or the
\* facade's external generation call raises
RecordFails(i) ==
    LET rec == call.args.inputs[i]
        cls == CategoryClass(call.args.model_enum)
    IN  \/ ~rec.isdict
        \/ cls \in {"LLMDriver", "VLMDriver"} /\ Falsy(KwGet(rec.items, "prompt", ""))
        \/ cls = "ALMDriver" /\ Falsy(KwGet(rec.items, "audio_file", None))
        \/ call.args.extGen[i] = "raises"

\* C9: a record that fails gets an error string at its index, batch_process
\* does not raise, and every later record is still processed with the same
\* cached handle.
C9_BatchIsolatesFailures ==
    (call.op = "batch_process" /\ BatchModelLoads)
    => LET name == call.args.model_enum.value
           inputs == call.args.inputs
       IN  /\ call.exc = NoExc
           /\ call.ret.driver = DictGet(_models, name)
           /\ \A i \in 1..Len(inputs) :
                RecordFails(i) =>
                    /\ i <= Len(call.ret.results)
                    /\ IsErrorString(call.ret.results[i])
                    /\ \A j \in (i + 1)..Len(inputs) :
                         /\ j <= Len(call.ret.items)
                         /\ call.ret.items[j] =
                              [exc |-> BatchItem(call.ret.driver, name, inputs[j],
                                                 call.args.kwargs, call.args.extGen[j]).exc,
                               ext_calls |-> BatchItem(call.ret.driver, name, inputs[j],
                                                       call.args.kwargs,
                                                       call.args.extGen[j]).ext_calls]

\* C9 witness: the first record failed and the second one's external
\* generation call was made and returned.
C9_Witness ==
    /\ call.op = "batch_process"
    /\ BatchModelLoads
    /\ Len(call.args.inputs) = 2
    /\ RecordFails(1)
    /\ Len(call.ret.items) = 2
    /\ call.ret.items[2].exc = NoExc
    /\ call.ret.items[2].ext_calls = 1

----------------------------------------------------------------------------
(* Properties of the facades *)

\* C10: generate on a facade of any category on which load has never
\* succeeded fails with the not-loaded error: it returns no value and makes
\* no external generation call.
C10_GenerateBeforeLoad ==
    (call.op = "generate" /\ ~loaded_ok)
    => /\ call.exc = NotLoaded
       /\ call.ret.ext_calls = 0

\* C10 witness: generate was called on a vision facade whose load had failed
\* after load_config returned.
C10_Witness ==
    /\ call.op = "generate"
    /\ ~loaded_ok
    /\ facade.cls = "VLMDriver"
    /\ facade._config
    /\ call.args.prompt = ""

\* C11: stream has the preconditions of generate: on a facade of any
\* category and identity on which load has never succeeded, asking the
\* generator of stream for its first fragment fails with the not-loaded
\* error and no fragment is produced.
C11_StreamBeforeLoad ==
    (/\ call.op = "next"
     /\ call.args.generator.state = "created"
     /\ ~loaded_ok)
    => /\ call.exc = NotLoaded
       /\ call.ret = <<>>
       /\ generator.delivered = <<>>

\* the option keys a stored configuration or a call may set
OptionKeys == {"temperature", "language"}

\* the built-in defaults of a facade class's generate
BuiltinDefaults(d) ==
    IF d.cls = "LLMDriver" THEN LLMDriver_generate_defaults
    ELSE IF d.cls = "VLMDriver" THEN VLMDriver_generate_defaults
    ELSE ALMDriver_transcribe_options(d, None, {})

\* C12: for every category and option key, the value handed to the external
\* generation or transcription call is the call-time override if given,
\* otherwise the stored configuration's value if it has the key, otherwise
\* the built-in default.
C12_OptionLayers ==
    (call.op = "generate" /\ call.ret.ext_calls = 1)
    => \A k \in OptionKeys :
         LET handed == call.ret.options
         IN  IF KwHas(call.args.kwargs, k)
             THEN handed \cap ({k} \X {"0.0", "0.3", "0.8", "0", "ja", None})
                    = {<<k, KwGet(call.args.kwargs, k, None)>>}
             ELSE IF KwHas(facade.config, k)
             THEN handed \cap ({k} \X {"0.0", "0.3", "0.8", "0", "ja", None})
                    = {<<k, KwGet(facade.config, k, None)>>}
             ELSE KwHas(BuiltinDefaults(facade), k)
                    => KwGet(handed, k, None) = KwGet(BuiltinDefaults(facade), k, None)

\* C13: for the speech-synthesis (Kokoro) identity, generate with a non-empty
\* text prompt, reached through construct, load and generate, ends in the
\* not-implemented error, never in not-loaded, a returned value or empty
\* output; transcription never ends in not-implemented.
C13_SpeechSynthesisNotImplemented ==
    call.op = "generate"
    => /\ (ContainsKokoro(facade.model_name) /\ ~Falsy(call.args.prompt))
            => call.exc.type = "NotImplementedError"
       /\ ContainsWhisper(facade.model_name)
            => call.exc.type # "NotImplementedError"

\* C14: when the external loader fails during a facade's load, the error is
\* re-raised and afterwards get_info reports loaded = false and generate
\* fails with not-loaded, for every category, also when the facade had been
\* loaded successfully before.
C14_FailedLoadLeavesUnloaded ==
    (call.op = "load" /\ call.exc # NoExc)
    => /\ ~get_info_loaded(facade)
       /\ Driver_generate(facade, "hello", "img.png", "a.wav", {}, "ok").exc = NotLoaded

\* what batch_generate's i-th call of generate gives: the prompt is bound to
\* the first parameter of the facade's generate
GenerateFor(i) ==
    Driver_generate(facade, call.args.prompts[i], None, call.args.prompts[i], {},
                    call.args.ext[i])

\* the positions whose generate raises
FailingPrompts == {i \in 1..Len(call.args.prompts) : GenerateFor(i).exc # NoExc}

\* the least element of a non-empty set of numbers
Min(S) == CHOOSE x \in S : \A y \in S : x <= y

\* C15: batch_generate calls generate for the inputs one at a time in input
\* order and returns the results in that order; if generate raises for input
\* k the exception leaves batch_generate, generate is called for no input
\* after k and no partial list is returned.
C15_BatchGenerateSequential ==
    call.op = "batch_generate"
    => LET n == Len(call.args.prompts)
       IN  IF FailingPrompts = {}
           THEN /\ call.exc = NoExc
                /\ call.ret.calls = [i \in 1..n |-> i]
                /\ call.ret.value = [i \in 1..n |-> GenerateFor(i).ret]
           ELSE /\ call.exc = GenerateFor(Min(FailingPrompts)).exc
                /\ call.ret.calls = [i \in 1..Min(FailingPrompts) |-> i]
                /\ call.ret.value = <<>>

\* C15 witness: on a loaded facade the first of two prompts succeeded and
\* the second one's generate raised.
C15_Witness ==
    /\ call.op = "batch_generate"
    /\ get_info_loaded(facade)
    /\ Len(call.args.prompts) = 2
    /\ FailingPrompts = {2}
    /\ call.exc # NoExc

\* C16: stream is pull-based and lazy: calling stream produces nothing, each
\* next() advances the external call by at most one fragment and hands that
\* fragment to the consumer before another is produced, fragments arrive in
\* production order, and a finished generator yields nothing more.
C16_StreamLazy ==
    /\ generator.produced = Len(generator.delivered)
    /\ facade.cls # "ALMDriver"
         => \A i \in 1..Len(generator.delivered) : generator.delivered[i] = Fragment(i)
    /\ call.op = "stream"
         => generator.ext_calls = 0 /\ generator.produced = 0
    /\ call.op = "next"
         => LET before == call.args.generator
            IN  /\ call.exc = NoExc
                     => /\ generator.produced = before.produced + 1
                        /\ generator.delivered = Append(before.delivered, call.ret)
                /\ call.exc # NoExc
                     => /\ generator.produced = before.produced
                        /\ generator.delivered = before.delivered
                        /\ generator.state = "closed"
                /\ before.state = "closed"
                     => call.exc = StopIteration /\ generator = before

\* C16 witness: the consumer pulled a second fragment from a text facade's
\* generator.
C16_Witness ==
    /\ call.op = "next"
    /\ call.exc = NoExc
    /\ facade.cls = "LLMDriver"
    /\ call.args.generator.state = "suspended"
    /\ Len(generator.delivered) = 2

\* C17: unload_model(name) returns true exactly when name was a key of the
\* mapping; when it returns false the mapping and the active reference are
\* unchanged; when it returns true for a handle that is not the active one,
\* the active reference and all other mapping entries are unchanged.
C17_UnloadFrame ==
    call.op = "unload_model"
    => LET name == call.args.model_name
           before == call.pre
       IN  /\ call.ret = HasKey(before._models, name)
           /\ ~call.ret
                => _models = before._models /\ _active_model = before._active_model
           /\ (call.ret /\ DictGet(before._models, name) # before._active_model)
                => /\ _active_model = before._active_model
                   /\ _models = SelectSeq(before._models, LAMBDA e : e.key # name)

\* C17 witness: a cached handle that is not the active one was unloaded
\* while another handle was active.
C17_Witness ==
    /\ call.op = "unload_model"
    /\ call.ret
    /\ call.pre._active_model # NoDriver
    /\ DictGet(call.pre._models, call.args.model_name) # call.pre._active_model
    /\ Len(_models) >= 2

\* C18: generate on a loaded facade whose primary input is empty (the prompt
\* for text and vision, the audio file path for transcription) fails with
\* the invalid-input error before the external call is made.
C18_EmptyInputRejected ==
    (call.op = "generate" /\ get_info_loaded(facade))
    => /\ (facade.cls \in {"LLMDriver", "VLMDriver"} /\ Falsy(call.args.prompt))
            => /\ call.exc = Raise("ValueError", "Prompt cannot be empty")
               /\ call.ret.ext_calls = 0
       /\ (facade.cls = "ALMDriver" /\ Falsy(call.args.audio_file))
            => /\ call.exc = Raise("ValueError",
                                   "Audio file path required for transcription")
               /\ call.ret.ext_calls = 0

\* C18 witness: a loaded vision facade was given an empty prompt together
\* with an image.
C18_Witness ==
    /\ call.op = "generate"
    /\ get_info_loaded(facade)
    /\ facade.cls = "VLMDriver"
    /\ call.args.prompt = ""
    /\ call.args.images = "img.png"

----------------------------------------------------------------------------
(* Properties of the configuration store *)

\* the value the environment's str stands for under the conversion fixed
\* for its key: integer for max_tokens, float for temperature and top_p,
\* the str itself otherwise
Coerced(key, chars) ==
    IF key = "max_tokens"
    THEN CASE chars = <<"2", "5", "0">> -> IntV(250)
    ELSE IF key \in {"temperature", "top_p"}
    THEN CASE chars = <<"2", "5", "0">> -> FloatV(250, 0)
           [] chars = <<"0", ".", "5">> -> FloatV(5, 1)
    ELSE StrV(chars)

\* C19: for each of the eight recognized environment variables that is set
\* when a Config is constructed, after construction get(section, key) for
\* its (section, key) returns the environment value under its fixed
\* coercion, whatever the file overlay or the defaults held for that key;
\* MLX_MAX_TOKENS = "250" gives the integer 250.
C19_EnvironmentWins ==
    (call.op = "Config" /\ call.exc = NoExc)
    => \A i \in 1..Len(env_mappings) :
         LET env_var == env_mappings[i][1]
             section == env_mappings[i][2]
             key == env_mappings[i][3]
         IN  KwHas(call.args.env, env_var)
             => get(DEFAULT_CONFIG, cfg, section, key, NoneV)
                  = Result(NoExc, Coerced(key, KwGet(call.args.env, env_var, <<>>)))

\* C19 witness: MLX_TEMPERATURE was set while the file set
\* generation.temperature and an earlier construction had left another
\* value there.
C19_Witness ==
    /\ call.op = "Config"
    /\ call.exc = NoExc
    /\ KwHas(call.args.env, "MLX_TEMPERATURE")
    /\ call.args.file.kind = "mapping"
    /\ KwGet(call.pre.DEFAULT_CONFIG["generation"], "temperature", NoneV) # FloatV(8, 1)
    /\ KwGet(call.pre.DEFAULT_CONFIG["generation"], "max_tokens", NoneV) = IntV(250)

\* the leaves a file's document sets, as <<section, key, value>>
FileLeaves(file) ==
    UNION {{<<p[1], q[1], q[2]>> : q \in p[2].items} : p \in file.doc}

\* the recognized environment variable of a (section, key) is set
EnvOverrides(env, section, key) ==
    \E i \in 1..Len(env_mappings) :
        /\ env_mappings[i][2] = section
        /\ env_mappings[i][3] = key
        /\ KwHas(env, env_mappings[i][1])

\* C20: the file overlay is a recursive merge: for a file that sets only
\* some leaf keys, after construction every (section, key) the file does not
\* mention holds its default value and every leaf the file mentions holds
\* the file's value, where no environment variable overrides the key.
C20_FileMergeKeepsDefaults ==
    (/\ call.op = "Config"
     /\ call.exc = NoExc
     /\ call.args.file.kind = "mapping"
     /\ \A p \in call.args.file.doc : p[2].kind = "dict")
    => \A section \in Sections : \A d \in DefaultLiteral[section] :
         LET key == d[1]
             mentioned == {l \in FileLeaves(call.args.file) :
                              l[1] = section /\ l[2] = key}
         IN  ~EnvOverrides(call.args.env, section, key)
             => get(DEFAULT_CONFIG, cfg, section, key, NoneV)
                  = Result(NoExc, IF mentioned = {} THEN d[2]
                                  ELSE (CHOOSE l \in mentioned : TRUE)[3])

----------------------------------------------------------------------------
(* Further properties of the registry *)

\* what the facade's load gives for identity x under the loader's answer ext
FacadeLoadOf(x, ext) == Driver_load(NewDriver(CategoryClass(x), x, {}, 1), ext)

\* C26: when the facade's load raises inside load_model for a recognized
\* identity, load_model re-raises that error and the mapping holds the same
\* keys bound to the same handles and the active reference is the same as
\* before.
C26_FailedLoadKeepsRegistry ==
    (/\ call.op = "load_model"
     /\ call.args.model_enum \in Identities
     /\ FacadeLoadOf(call.args.model_enum, call.args.ext).exc # NoExc)
    => /\ call.exc = FacadeLoadOf(call.args.model_enum, call.args.ext).exc
       /\ _models = call.pre._models
       /\ _active_model = call.pre._active_model

\* C26 witness: the load failed for a name that was cached, while a handle
\* of another name was active.
C26_Witness ==
    /\ call.op = "load_model"
    /\ call.args.model_enum \in Identities
    /\ call.exc = ExternalError
    /\ HasKey(call.pre._models, call.args.model_enum.value)
    /\ call.pre._active_model # NoDriver
    /\ call.pre._active_model.model_name # call.args.model_enum.value

\* the positions of a compare_models call at which load_model was called and
\* succeeded: the name was not cached then and is in the mapping now
LoadedAt ==
    {i \in 1..Len(call.ret.items) :
        /\ call.args.models[i] \in Identities
        /\ call.ret.items[i].loaded
        /\ HasKey(_models, call.args.models[i].value)}

\* the greatest element of a non-empty set of numbers
Max(S) == CHOOSE x \in S : \A y \in S : y <= x

\* C27: compare_models reuses cached handles: an identity whose display name
\* is in the mapping is not loaded again and keeps its handle; when every
\* identity of the list is cached the mapping and the active reference are
\* unchanged; otherwise the active reference afterwards is the handle of the
\* last identity the call loaded successfully (unchanged when it loaded
\* none).
C27_CompareReusesCached ==
    call.op = "compare_models"
    => LET models == call.args.models
           before == call.pre
       IN  /\ \A i \in 1..Len(call.ret.items) :
                (models[i] \in Identities /\ HasKey(before._models, models[i].value))
                => /\ ~call.ret.items[i].loaded
                   /\ DictGet(_models, models[i].value)
                        = DictGet(before._models, models[i].value)
           /\ (\A i \in 1..Len(models) :
                   models[i] \in Identities /\ HasKey(before._models, models[i].value))
                => _models = before._models /\ _active_model = before._active_model
           /\ LoadedAt # {}
                => _active_model = DictGet(_models, models[Max(LoadedAt)].value)
           /\ LoadedAt = {}
                => _models = before._models /\ _active_model = before._active_model

\* C27 witness: the first identity was cached and not the active one, the
\* second one was loaded by the call.
C27_Witness ==
    /\ call.op = "compare_models"
    /\ Len(call.ret.items) = 2
    /\ call.args.models[1] \in Identities
    /\ HasKey(call.pre._models, call.args.models[1].value)
    /\ call.pre._active_model.model_name # call.args.models[1].value
    /\ LoadedAt = {2}

\* C28: for any list handed to compare_models, elements without a display
\* name included, the result mapping's keys are exactly the display names of
\* the list's identities, each identity's entry is what its own last
\* occurrence gave (no other element's error is recorded under it), and the
\* error handler never itself raises.
C28_CompareKeysAreIdentities ==
    call.op = "compare_models"
    => LET models == call.args.models
           results == call.ret.results
       IN  /\ call.exc = NoExc
           /\ {results[j].key : j \in 1..Len(results)}
                = {models[i].value : i \in {k \in 1..Len(models) : models[k] \in Identities}}
           /\ \A i \in 1..Len(models) :
                (/\ models[i] \in Identities
                 /\ LastOccurrence(models, i)
                 /\ i <= Len(call.ret.items)
                 /\ HasKey(results, models[i].value))
                => IF call.ret.items[i].exc # NoExc
                   THEN DictGet(results, models[i].value)
                          = ErrorString(call.ret.items[i].exc)
                   ELSE ~IsErrorString(DictGet(results, models[i].value))

\* C29: batch_process with an identity that is not cached and whose load
\* fails (the speech-synthesis identity included) lets the load error leave
\* batch_process, returns no list, calls generate for no record and leaves
\* the mapping and the active reference unchanged.
C29_BatchLoadFailurePropagates ==
    (/\ call.op = "batch_process"
     /\ call.args.model_enum \in Identities
     /\ ~HasKey(call.pre._models, call.args.model_enum.value)
     /\ FacadeLoadOf(call.args.model_enum, call.args.extLoad).exc # NoExc)
    => /\ call.exc = FacadeLoadOf(call.args.model_enum, call.args.extLoad).exc
       /\ call.ret.results = <<>>
       /\ call.ret.items = <<>>
       /\ _models = call.pre._models
       /\ _active_model = call.pre._active_model

\* C29 witness: the speech-synthesis identity was given with two records
\* while another handle was cached and active.
C29_Witness ==
    /\ call.op = "batch_process"
    /\ call.args.model_enum \in Identities
    /\ ContainsKokoro(call.args.model_enum.value)
    /\ Len(call.args.inputs) = 2
    /\ call.exc.type = "NotImplementedError"
    /\ _active_model # NoDriver

----------------------------------------------------------------------------
(* Further properties of the configuration store *)

\* every variable the environment sets has a value its conversion accepts
WellFormed(env) ==
    \A i \in 1..Len(env_mappings) :
        KwHas(env, env_mappings[i][1])
        => Coerce(env_mappings[i][3], KwGet(env, env_mappings[i][1], <<>>)).exc = NoExc

\* the literal defaults with the environment's converted values written over
\* their keys
DefaultsUnder(env) ==
    {<<section,
       OwnDict(DictUpdate(DefaultLiteral[section],
                          {<<env_mappings[i][3],
                             Coerced(env_mappings[i][3],
                                     KwGet(env, env_mappings[i][1], <<>>))>> :
                              i \in {j \in 1..Len(env_mappings) :
                                        /\ env_mappings[j][2] = section
                                        /\ KwHas(env, env_mappings[j][1])}}))>> :
        section \in Sections}

\* C21: for any file content (absent, unparsable, empty, a non-mapping
\* document, a section replaced by a scalar) and any well-formed setting of
\* the recognized environment variables the constructor returns without
\* raising, and when the file is absent or unparsable the mapping is the
\* defaults overlaid only by the environment.
C21_FileNeverFatal ==
    (call.op = "Config" /\ WellFormed(call.args.env))
    => /\ call.exc = NoExc
       /\ call.args.file.kind \in {"absent", "unparsable"}
            => Resolved(DEFAULT_CONFIG, cfg) = DefaultsUnder(call.args.env)

\* C22: get_section returns a copy: after the caller adds, removes or
\* reassigns a key in the returned mapping, get(section, key) and
\* get_section(section) on the store give what they gave before.
C22_SectionIsCopy ==
    (call.op = "get_section" /\ call.exc = NoExc /\ call.ret.mutated)
    => /\ \A sk \in GetCalls :
            get(DEFAULT_CONFIG, cfg, sk[1], sk[2], NoneV)
              = get(call.pre.DEFAULT_CONFIG, call.pre.cfg, sk[1], sk[2], NoneV)
       /\ \A section \in Sections \cup {"plugins"} :
            get_section(DEFAULT_CONFIG, cfg, section)
              = get_section(call.pre.DEFAULT_CONFIG, call.pre.cfg, section)

\* C22 witness: the caller reassigned max_tokens in the mapping returned for
\* "generation" and the store gives another value for it.
C22_Witness ==
    /\ call.op = "get_section"
    /\ call.args.section = "generation"
    /\ call.ret.mutated
    /\ KwGet(call.ret.items, "max_tokens", NoneV) = IntV(1)
    /\ get(DEFAULT_CONFIG, cfg, "generation", "max_tokens", NoneV).value # IntV(1)

\* a value that is a number greater than zero and at most limit
InRange(v, limit) ==
    v.t \in {"int", "float"} /\ 0 < v.i /\ v.i <= limit * Pow10(v.e)

\* max_tokens is positive, temperature in (0, 2.0], top_p in (0, 1.0] and
\* the cache directory can be created
ValidSettings(defaults, config, ext) ==
    LET max_tokens == get(defaults, config, "generation", "max_tokens", IntV(0)).value
        temperature == get(defaults, config, "generation", "temperature",
                           FloatV(8, 1)).value
        top_p == get(defaults, config, "generation", "top_p", FloatV(95, 2)).value
        cache_dir == get(defaults, config, "system", "cache_dir", NoneV).value
    IN  /\ max_tokens.t \in {"int", "float"} /\ max_tokens.i > 0
        /\ InRange(temperature, 2)
        /\ InRange(top_p, 1)
        /\ cache_dir.t = "str" /\ ext = "ok"

\* C23: validate_config returns true exactly when max_tokens is positive,
\* temperature lies in (0, 2.0], top_p lies in (0, 1.0] and the cache
\* directory can be created, and false otherwise; for every configuration
\* reachable through file overlay, environment overlay and set it returns
\* a boolean and never raises, and it leaves the mapping unchanged.
C23_ValidateNeverRaises ==
    call.op = "validate_config"
    => /\ call.exc = NoExc
       /\ call.ret \in BOOLEAN
       /\ call.ret <=> ValidSettings(DEFAULT_CONFIG, cfg, call.args.ext)
       /\ DEFAULT_CONFIG = call.pre.DEFAULT_CONFIG
       /\ cfg = call.pre.cfg

\* a Config was constructed from the file save_config had just written
IsReload == call.op = "Config" /\ call.args.saved # {}

\* the mapping holds, at the key of every environment variable that is
\* set, the value the variable converts to
EnvAgrees(mapping, env) ==
    \A i \in 1..Len(env_mappings) :
        KwHas(env, env_mappings[i][1])
        => LET value == Coerce(env_mappings[i][3], KwGet(env, env_mappings[i][1], <<>>))
               entry == KwGet(mapping, env_mappings[i][2], Scalar(NoneV))
           IN  /\ value.exc = NoExc
               /\ entry.kind = "dict"
               /\ KwHas(entry.items, env_mappings[i][3])
               /\ KwGet(entry.items, env_mappings[i][3], NoneV) = value.value

\* C24: for every configuration reached by construction and set calls,
\* save_config(path) followed by Config(path) under the same environment
\* gives a mapping equal to the one that was saved.
C24_RoundTrip ==
    IsReload
    => /\ call.exc = NoExc
       /\ Resolved(DEFAULT_CONFIG, cfg) = call.args.saved

\* C24, amended: the same when the saved mapping holds, at the key of every
\* environment variable that is set, the value the variable converts to
\* (on reconstruction the environment is overlaid on the file).
C24_RoundTripUnderEnvironment ==
    (IsReload /\ EnvAgrees(call.args.saved, call.args.env))
    => /\ call.exc = NoExc
       /\ Resolved(DEFAULT_CONFIG, cfg) = call.args.saved

\* C24 witness: a mapping with a section made by set was saved and read back
\* while an environment variable was set.
C24_Witness ==
    /\ IsReload
    /\ call.args.env # {}
    /\ EnvAgrees(call.args.saved, call.args.env)
    /\ KwHas(call.args.saved, "plugins")
    /\ call.exc = NoExc

\* the literal defaults as a mapping
DefaultMapping == {<<section, OwnDict(DefaultLiteral[section])>> : section \in Sections}

\* C25: Config instances are isolated from the built-in defaults: no file
\* overlay, environment overlay or set changes DEFAULT_CONFIG, a Config
\* constructed with no file and no environment variables holds the
\* original defaults, and create_default_config writes the original
\* defaults.
C25_DefaultsIsolated ==
    /\ DEFAULT_CONFIG = DefaultLiteral
    /\ (/\ call.op = "Config"
        /\ call.args.file = NoFile
        /\ call.args.env = {}
        /\ call.exc = NoExc)
       => Resolved(DEFAULT_CONFIG, cfg) = DefaultMapping
    /\ (call.op = "create_default_config" /\ call.exc = NoExc)
       => call.ret = FileOf(DefaultMapping)

====
